---- MODULE Spec2Model ----
(***************************************************************************)
(* A model of the transcript-resolution and stream-reconciliation core of  *)
(* summarize:                                                              *)
(*   - mergeStreamingChunk (src/run/streaming.ts), the stream reconciler,  *)
(*     as a pure function on character sequences, and the streaming loop   *)
(*     that feeds it;                                                      *)
(*   - fetchTranscript of the YouTube provider                             *)
(*     (src/content/link-preview/transcript/providers/youtube.ts), one     *)
(*     action per stretch of code between two awaits.                      *)
(*   - resolveTranscriptForLink                                            *)
(*     (src/content/link-preview/transcript/index.ts), the entry point     *)
(*     that selects a provider and builds the diagnostics;                 *)
(*   - transcribeMediaWithWhisper and transcribeMediaFileWithWhisper       *)
(*     (src/transcription/whisper.ts), the transcription engine, with the  *)
(*     calls the two make to each other kept on a stack of frames;         *)
(*   - summarizeMediaFile (src/run/flows/asset/media.ts), the flow that    *)
(*     summarizes a local audio or video file;                             *)
(*   - generateTextWithModelId and the text stream of                      *)
(*     streamTextWithModelId (src/llm/generate-text.ts);                   *)
(*   - the buffered log of the browser extension                           *)
(*     (apps/chrome-extension/src/lib/extension-logs.ts) and the refresh   *)
(*     of the logs and processes viewers                                   *)
(*     (apps/chrome-extension/src/lib/daemon-payload.ts).                  *)
(* The specifications share the module: SpecMerge (single calls of the     *)
(* merge on arbitrary inputs), SpecStream (one streaming session),         *)
(* SpecYouTube (one resolution call of the YouTube provider), SpecResolve  *)
(* (one call of the entry point), SpecWhisper (one transcription call),    *)
(* SpecWhisperFair (the same call with steps that may hang, under weak     *)
(* fairness), SpecSegments (the order of the segments of a chunked         *)
(* transcription), SpecMediaFile (one call of summarizeMediaFile),        *)
(* SpecFeed (the streaming loop fed with arbitrary chunks), SpecGenerate,  *)
(* SpecTextStream, SpecExtensionLog and SpecViewer.                        *)
(***************************************************************************)
EXTENDS Integers, Sequences, FiniteSets, TLC

VARIABLES
    \* --- single merge calls (SpecMerge)
    previous,           \* the `previous` argument of the current call
    chunk,              \* the `chunk` argument
    merged,             \* what the last call returned, or NoValue
    previous0,          \* the `previous` of the first call (history)
    mergeCalls,         \* how many calls of the merge were made
    \* --- one streaming session (SpecStream)
    produced,           \* the text the provider has produced so far, as produced
    streamed,           \* the accumulated text the loop keeps (each call's `next`)
    rendered,           \* everything written to the renderer (the `appended`s)
    chunksSeen,         \* the number of chunks received
    hadDelta,           \* some chunk was a true delta (history)
    hadSnapshot,        \* some chunk was a cumulative snapshot (history)
    unambiguous,        \* no delta so far was related to the text before it (history)
    revised,            \* some merge took the chunk for a minor revision (history)
    \* --- one YouTube resolution call (SpecYouTube)
    options,            \* ProviderFetchOptions: mode, credentials, paths
    context,            \* ProviderContext: html and resource id present or not
    pc,                 \* where the call is: "start", the source awaited, "returned" or
                        \* "thrown"
    attemptedProviders, \* the attemptedProviders list
    calls,              \* the source fetchers invoked so far, in order (history)
    yielded,            \* source -> what its fetcher returned
    notes,              \* the notes list
    result,             \* the returned ProviderResult, or NoValue
    error,              \* the thrown error, or NoValue
    \* --- one call of resolveTranscriptForLink (SpecResolve)
    request,            \* the url, html and dependencies of the call
    provider,           \* the id of the selected provider, or NoValue
    providerResult,     \* the ProviderResult the provider returned, or NoValue
    diagnostics,        \* the diagnostics of the returned resolution, or NoValue
    rpc,                \* where the call is: "start", "executing", "returned", "thrown"
    \* --- one call of the transcription engine (SpecWhisper)
    wenv,               \* what is installed and configured: local engine, ffmpeg, keys
    winput,             \* the entry point called and its media
    wstack,             \* the frames of the engine's calls in progress, innermost last
    wret,               \* <<r>> when a call has just returned r to its caller, else <<>>
    wcalls,             \* the provider calls made so far, in order (history)
    wstatus,            \* "running", "returned" or "thrown"
    wrecorded,          \* every note pushed to a notes list so far (history)
    wsegs,              \* the results of the segments transcribed so far (history)
    wtemp,              \* the temporary files and directories that exist
    winflight,          \* the provider requests and subprocesses not yet ended
    werror,             \* what the call threw, "null" while it has thrown nothing
    \* --- the order of the segments of one chunked transcription (SpecSegments)
    sgCount,            \* the number of segment files ffmpeg wrote
    sgFiles,            \* the sorted list of the file names, <<>> before the sort
    sgCalls,            \* the files transcribed so far, in order (history)
    sgParts,            \* the parts list
    sgText,             \* the returned text, or NoValue
    \* --- one call of summarizeMediaFile (SpecMediaFile)
    menv,               \* the environment values read and the state of local whisper.cpp
    mfile,              \* the file at the path: "missing", "empty", "ok", "too large"
    mpc,                \* where the call is: "start", the call awaited, "returned",
                        \* "thrown"
    mlog,               \* the file accesses and the calls made so far, in order
    merror,             \* the message of the thrown error, or NoValue
    \* --- one call of generateTextWithModelId (SpecGenerate)
    gin,                \* the arguments: retries, provider, api key and onRetry given or not
    gattempt,           \* the local `attempt`
    gpc,                \* where the call is: "start", "completeSimple", "sleep",
                        \* "returned", "thrown"
    glog,               \* how each attempt so far ended, in order (history)
    gcalls,             \* the number of completeSimple calls made (history)
    gerror,             \* the message of the thrown error, or NoValue
    \* --- one stream returned by streamTextWithModelId (SpecTextStream)
    tclock,             \* "before" or "elapsed": timeoutMs has passed since the call
    tpc,                \* the wrapped stream: "idle", "reading", "yielded", "done",
                        \* "timedOut", "threw"
    tinner,             \* the provider's text stream: "unstarted", "awaiting",
                        \* "suspended", "ended"
    treturn,            \* iterator.return() waits for the inner stream's running step
    timeoutId,          \* the timer of startTimeout is pending
    lastError,          \* "null", "timeout" (timeoutError) or "stream" (event.error)
    taborts,            \* the number of controller.abort() calls (history)
    tchunks,            \* the number of chunks yielded
    tlate,              \* a chunk was yielded after timeoutMs had elapsed (history)
    \* --- the extension log (SpecExtensionLog)
    flushTimer,         \* the module's flushTimer: 0, or 1 for a timer id
    flushInFlight,      \* the module's flushInFlight
    pendingLines,       \* the module's pendingLines
    stored,             \* the lines under LOG_KEY in the storage
    flushes,            \* the runs of flushPending that are at an await
    timers,             \* the number of pending flush timeouts
    accepted,           \* the number of lines accepted so far (history)
    failures,           \* the number of storage calls that failed (history)
    \* --- one viewer of the options page (SpecViewer)
    refreshInFlight,    \* the viewer's refreshInFlight
    needsRefresh,       \* the viewer's needsRefresh
    vin,                \* which viewer it is, and whether a token is stored
    vactive,            \* isActive(): the viewer's tab is the active one
    requests,           \* the refresh runs that are at an await
    absorbed,           \* the refreshes requested during the current request (history)
    finished,           \* what the last finished request saw and did (history)
    vcount              \* the number of refresh calls made (history)

mergeVars == <<previous, chunk, merged, previous0, mergeCalls>>
streamVars == <<produced, streamed, rendered, chunksSeen, hadDelta, hadSnapshot,
               unambiguous, revised>>
ytVars == <<options, context, pc, attemptedProviders, calls, yielded, notes, result, error>>
resolveVars == <<request, provider, providerResult, diagnostics, rpc>>
whisperVars == <<wenv, winput, wstack, wret, wcalls, wstatus, wrecorded, wsegs, wtemp,
                 winflight, werror>>
segmentVars == <<sgCount, sgFiles, sgCalls, sgParts, sgText>>
fileVars == <<menv, mfile, mpc, mlog, merror>>
generateVars == <<gin, gattempt, gpc, glog, gcalls, gerror>>
textVars == <<tclock, tpc, tinner, treturn, timeoutId, lastError, taborts, tchunks, tlate>>
logVars == <<flushTimer, flushInFlight, pendingLines, stored, flushes, timers, accepted,
             failures>>
viewerVars == <<refreshInFlight, needsRefresh, vin, vactive, requests, absorbed, finished,
                vcount>>
\* The groups of the language-model calls and of the browser extension.
clientVars == <<generateVars, textVars, logVars, viewerVars>>
vars == <<mergeVars, streamVars, ytVars, resolveVars, whisperVars, segmentVars, fileVars,
          clientVars>>

\* What the actions of one group leave alone.
besidesMerge == <<streamVars, ytVars, resolveVars, whisperVars, segmentVars, fileVars, clientVars>>
besidesStream == <<mergeVars, ytVars, resolveVars, whisperVars, segmentVars, fileVars, clientVars>>
besidesYouTube == <<mergeVars, streamVars, resolveVars, whisperVars, segmentVars, fileVars, clientVars>>
besidesResolve == <<mergeVars, streamVars, whisperVars, segmentVars, fileVars, clientVars>>
besidesWhisper == <<mergeVars, streamVars, ytVars, resolveVars, segmentVars, fileVars, clientVars>>
besidesSegments == <<mergeVars, streamVars, ytVars, resolveVars, whisperVars, fileVars, clientVars>>
besidesFile == <<mergeVars, streamVars, ytVars, resolveVars, whisperVars, segmentVars, clientVars>>
besidesGenerate == <<mergeVars, streamVars, ytVars, resolveVars, whisperVars, segmentVars, fileVars,
                    textVars, logVars, viewerVars>>
besidesText == <<mergeVars, streamVars, ytVars, resolveVars, whisperVars, segmentVars, fileVars,
                generateVars, logVars, viewerVars>>
besidesLog == <<mergeVars, streamVars, ytVars, resolveVars, whisperVars, segmentVars, fileVars,
               generateVars, textVars, viewerVars>>
besidesViewer == <<mergeVars, streamVars, ytVars, resolveVars, whisperVars, segmentVars, fileVars,
                  generateVars, textVars, logVars>>

NoValue == "none"

(***************************************************************************)
(* Text: a string is a sequence of characters.  CR and LF are the two      *)
(* line-ending characters; the other characters are ordinary.              *)
(***************************************************************************)
CR == "CR"
LF == "LF"
Alphabet == {"a", "b", CR, LF}

\* Longest string handed to a single merge call.
MaxLen == 3

Strings(A, n) == UNION {[1..k -> A] : k \in 0..n}

Min(S) == CHOOSE x \in S : \A y \in S : x <= y
Max(S) == CHOOSE x \in S : \A y \in S : x >= y

\* String.prototype.startsWith
startsWith(s, p) == Len(p) <= Len(s) /\ SubSeq(s, 1, Len(p)) = p

\* String.prototype.slice(k) for 0 <= k
slice(s, k) == SubSeq(s, k + 1, Len(s))

\* String.prototype.slice(-k) for k > 0: the last k characters
sliceLast(s, k) == SubSeq(s, Len(s) - k + 1, Len(s))

\* The merge without its line-ending normalisation.
normalizeNothing(input) == input

\* input.replace(/\r\n?/g, '\n'): scanning left to right, CR LF and a lone CR
\* each become one LF.  The text is normalised by halves: an LF that opens the
\* right half belongs to the match of a CR that closes the left half.
RECURSIVE normalizeStreamText(_)
normalizeStreamText(input) ==
    IF Len(input) = 0 THEN <<>>
    ELSE IF Len(input) = 1 THEN (IF input[1] = CR THEN <<LF>> ELSE input)
    ELSE LET half == Len(input) \div 2
             left == SubSeq(input, 1, half)
             right == SubSeq(input, half + 1, Len(input))
         IN normalizeStreamText(left) \o
            normalizeStreamText(IF left[half] = CR /\ right[1] = LF
                                THEN Tail(right) ELSE right)

\* The scan limit of commonPrefixLength, the slack of the near-prefix rule
\* and the longest overlap searched.
PrefixScanLimit == 4096
MinPrefixSlack == 64
MaxOverlapScan == 2048

\* The loop of lines 6-11 stops at the first index where a and b differ, or at
\* max when they agree on their first max characters.
commonPrefixLength(a, b, limit) ==
    LET max == Min({Len(a), Len(b), limit})
    IN Min({i \in 0..(max - 1) : a[i + 1] # b[i + 1]} \cup {max})

\* Math.max(prev.length - 64, Math.floor(prev.length * 0.9)); floor(n * 0.9) is
\* (9 n) div 10 for every length a string can have.
minPrefix(prev) == Max({Len(prev) - MinPrefixSlack, (Len(prev) * 9) \div 10})

\* Lines 29-37: the chunk is a resend of nearly all of prev with a small revision.
nearPrefix(prev, nextChunk) ==
    /\ Len(nextChunk) >= Len(prev)
    /\ LET prefixLen == commonPrefixLength(prev, nextChunk, PrefixScanLimit)
       IN prefixLen > 0 /\ prefixLen >= minPrefix(prev)

\* Lines 38-43: the largest len, from maxOverlap down to 1, with the last len
\* characters of prev equal to the first len of the chunk; 0 when there is none.
overlapLength(prev, nextChunk) ==
    LET maxOverlap == Min({Len(prev), Len(nextChunk), MaxOverlapScan})
        hits == {len \in 1..maxOverlap :
                    sliceLast(prev, len) = SubSeq(nextChunk, 1, len)}
    IN IF hits = {} THEN 0 ELSE Max(hits)

\* The merge taking every chunk for a cumulative snapshot.
mergeAlwaysReplace(prev0, chunk0) ==
    IF chunk0 = <<>> THEN [next |-> prev0, appended |-> <<>>]
    ELSE LET prev == normalizeStreamText(prev0)
             nextChunk == normalizeStreamText(chunk0)
         IN [next |-> nextChunk,
             appended |-> slice(nextChunk, commonPrefixLength(prev, nextChunk, PrefixScanLimit))]

\* The merge without any of its resend rules: every chunk taken as a delta.
mergeAlwaysAppend(prev0, chunk0) ==
    [next |-> prev0 \o chunk0, appended |-> chunk0]

mergeStreamingChunk(prev0, chunk0) ==
    IF chunk0 = <<>> THEN [next |-> prev0, appended |-> <<>>]
    ELSE LET prev == normalizeStreamText(prev0)
             nextChunk == normalizeStreamText(chunk0)
         IN IF prev = <<>> THEN [next |-> nextChunk, appended |-> nextChunk]
            ELSE IF startsWith(nextChunk, prev)
                 THEN [next |-> nextChunk, appended |-> slice(nextChunk, Len(prev))]
            ELSE IF startsWith(prev, nextChunk)
                 THEN [next |-> prev, appended |-> <<>>]
            ELSE IF nearPrefix(prev, nextChunk)
                 THEN [next |-> nextChunk,
                       appended |-> slice(nextChunk,
                           commonPrefixLength(prev, nextChunk, PrefixScanLimit))]
            ELSE LET len == overlapLength(prev, nextChunk)
                 IN [next |-> prev \o slice(nextChunk, len),
                     appended |-> slice(nextChunk, len)]

(***************************************************************************)
(* Idle values of the groups of variables.                                 *)
(***************************************************************************)
MergeIdle ==
    /\ previous = <<>> /\ chunk = <<>> /\ merged = NoValue
    /\ previous0 = <<>> /\ mergeCalls = 0

StreamIdle ==
    /\ produced = <<>> /\ streamed = <<>> /\ rendered = <<>>
    /\ chunksSeen = 0 /\ hadDelta = FALSE /\ hadSnapshot = FALSE
    /\ unambiguous = TRUE /\ revised = FALSE

YouTubeIdle ==
    /\ options = NoValue /\ context = NoValue /\ pc = "idle"
    /\ attemptedProviders = <<>> /\ calls = <<>> /\ yielded = NoValue
    /\ notes = <<>> /\ result = NoValue /\ error = NoValue

ResolveIdle ==
    /\ request = NoValue /\ provider = NoValue /\ providerResult = NoValue
    /\ diagnostics = NoValue
    /\ rpc = "idle"

SegmentsIdle ==
    /\ sgCount = 0 /\ sgFiles = <<>> /\ sgCalls = <<>> /\ sgParts = <<>>
    /\ sgText = NoValue

FileIdle ==
    /\ menv = NoValue /\ mfile = NoValue /\ mpc = "idle" /\ mlog = <<>>
    /\ merror = NoValue

GenerateIdle ==
    /\ gin = NoValue /\ gattempt = 0 /\ gpc = "idle" /\ glog = <<>> /\ gcalls = 0
    /\ gerror = NoValue

TextIdle ==
    /\ tclock = "before" /\ tpc = "none" /\ tinner = "unstarted" /\ treturn = FALSE
    /\ timeoutId = FALSE /\ lastError = "null" /\ taborts = 0 /\ tchunks = 0
    /\ tlate = FALSE

LogIdle ==
    /\ flushTimer = 0 /\ flushInFlight = FALSE /\ pendingLines = <<>> /\ stored = <<>>
    /\ flushes = <<>> /\ timers = 0 /\ accepted = 0 /\ failures = 0

\* What `finished` holds before any request has finished.
NothingFinished ==
    [absorbed |-> 0, active |-> FALSE, followUps |-> 0, tokenOk |-> FALSE,
     started |-> FALSE]

ViewerIdle ==
    /\ refreshInFlight = FALSE /\ needsRefresh = FALSE /\ vin = NoValue
    /\ vactive = FALSE /\ requests = <<>> /\ absorbed = 0
    /\ finished = NothingFinished /\ vcount = 0

ClientIdle == GenerateIdle /\ TextIdle /\ LogIdle /\ ViewerIdle

WhisperIdle ==
    /\ wenv = NoValue /\ winput = NoValue /\ wstack = <<>> /\ wret = <<>>
    /\ wcalls = <<>> /\ wstatus = "idle" /\ wrecorded = {}
    /\ wsegs = <<>> /\ wtemp = {} /\ winflight = {} /\ werror = "null"

(***************************************************************************)
(* SpecMerge: mergeStreamingChunk called once on any two strings, and then *)
(* called again with the same chunk and the text it returned.              *)
(***************************************************************************)
MaxResends == 2

Repeat(c, n) == [i \in 1..n |-> c]

\* Texts longer than the scans of the merge reach.  RevisedLongText: the
\* shortest previous whose near-prefix threshold lies beyond the prefix scan,
\* resent with its last character revised.  OverlapLongText: a previous and a
\* chunk whose only overlap is one character longer than the overlap scan.
RevisedLongText ==
    LET n == PrefixScanLimit + MinPrefixSlack + 1
    IN <<Repeat("a", n), Repeat("a", n - 1) \o <<"b">>>>

OverlapLongText ==
    LET shared == <<"b">> \o Repeat("a", MaxOverlapScan)
    IN <<(<<"a">> \o shared), (shared \o <<"b">>)>>

LongTexts == {RevisedLongText, OverlapLongText}

InitMerge ==
    /\ \E texts \in (Strings(Alphabet, MaxLen) \X Strings(Alphabet, MaxLen))
                         \cup LongTexts :
          previous = texts[1] /\ chunk = texts[2]
    /\ previous0 = previous
    /\ merged = NoValue
    /\ mergeCalls = 0
    /\ StreamIdle /\ YouTubeIdle /\ ResolveIdle /\ WhisperIdle
    /\ SegmentsIdle /\ FileIdle /\ ClientIdle

Merge ==
    /\ mergeCalls = 0
    /\ merged' = mergeStreamingChunk(previous, chunk)
    /\ mergeCalls' = 1
    /\ UNCHANGED <<previous, chunk, previous0, besidesMerge>>

Resend ==
    /\ mergeCalls > 0
    /\ mergeCalls <= MaxResends
    /\ previous' = merged.next
    /\ merged' = mergeStreamingChunk(merged.next, chunk)
    /\ mergeCalls' = mergeCalls + 1
    /\ UNCHANGED <<chunk, previous0, besidesMerge>>

NextMerge == Merge \/ Resend

SpecMerge == InitMerge /\ [][NextMerge]_vars

(***************************************************************************)
(* SpecStream: one streaming session.  The provider produces its text      *)
(* piece by piece; each chunk it sends is either the new piece alone (a    *)
(* true delta) or the whole text so far (a cumulative snapshot).  The loop *)
(* starts from the empty text, hands each chunk to mergeStreamingChunk     *)
(* with the `next` of the call before, and writes each `appended`.         *)
(***************************************************************************)
\* Longest piece of text the provider produces at once, and the number of
\* chunks of a session.
MaxPiece == 1
MaxChunks == 3

Pieces == Strings(Alphabet, MaxPiece)

\* One of the merge's resend rules applies to the non-empty texts p and c:
\* one is a prefix of the other, c is at least as long as p and shares with it
\* a prefix of at least max(|p| - 64, floor(0.9 |p|)) characters, or an ending
\* of p is a beginning of c.
Related(p, c) ==
    \/ startsWith(c, p)
    \/ startsWith(p, c)
    \/ /\ Len(c) >= Len(p)
       /\ \E n \in 1..Len(p) :
             /\ n >= Len(p) - MinPrefixSlack /\ n >= (9 * Len(p)) \div 10
             /\ SubSeq(p, 1, n) = SubSeq(c, 1, n)
             /\ (n = Len(p) \/ p[n + 1] # c[n + 1])
    \/ \E k \in 1..Len(p) : k <= Len(c) /\ sliceLast(p, k) = SubSeq(c, 1, k)

\* A delta that none of the resend rules can mistake for a resend of the text
\* before it, both taken with their line endings normalised.
Unambiguous(before, delta) ==
    LET p == normalizeStreamText(before)
        c == normalizeStreamText(delta)
    IN p = <<>> \/ c = <<>> \/ ~Related(p, c)

InitStream ==
    /\ produced = <<>> /\ streamed = <<>> /\ rendered = <<>>
    /\ chunksSeen = 0 /\ hadDelta = FALSE /\ hadSnapshot = FALSE
    /\ unambiguous = TRUE /\ revised = FALSE
    /\ MergeIdle /\ YouTubeIdle /\ ResolveIdle /\ WhisperIdle
    /\ SegmentsIdle /\ FileIdle /\ ClientIdle

\* The merge of prev0 and chunk0 returns through lines 29-37: the chunk is
\* taken for a resend of prev0 with a minor revision.
revises(prev0, chunk0) ==
    /\ chunk0 # <<>>
    /\ LET prev == normalizeStreamText(prev0)
           nextChunk == normalizeStreamText(chunk0)
       IN /\ prev # <<>>
          /\ ~startsWith(nextChunk, prev)
          /\ ~startsWith(prev, nextChunk)
          /\ nearPrefix(prev, nextChunk)

\* The loop body for one chunk.
StreamChunk(text) ==
    LET m == mergeStreamingChunk(streamed, text)
    IN /\ streamed' = m.next
       /\ rendered' = rendered \o m.appended
       /\ revised' = (revised \/ revises(streamed, text))

StreamDelta ==
    \E piece \in Pieces :
        /\ chunksSeen < MaxChunks
        /\ produced' = produced \o piece
        /\ StreamChunk(piece)
        /\ chunksSeen' = chunksSeen + 1
        /\ hadDelta' = TRUE
        /\ unambiguous' = (unambiguous /\ Unambiguous(produced, piece))
        /\ UNCHANGED <<hadSnapshot, besidesStream>>

StreamSnapshot ==
    \E piece \in Pieces :
        /\ chunksSeen < MaxChunks
        /\ produced' = produced \o piece
        /\ StreamChunk(produced \o piece)
        /\ chunksSeen' = chunksSeen + 1
        /\ hadSnapshot' = TRUE
        /\ UNCHANGED <<hadDelta, unambiguous, besidesStream>>

NextStream == StreamDelta \/ StreamSnapshot

SpecStream == InitStream /\ [][NextStream]_vars

(***************************************************************************)
(* SpecFeed: the same loop fed with arbitrary chunks: any sequence of      *)
(* merges that starts from the empty text and hands each returned `next`   *)
(* to the following call as `previous`.                                    *)
(***************************************************************************)
\* Longest chunk fed to the loop.
MaxFeed == 2

Feed ==
    \E text \in Strings(Alphabet, MaxFeed) :
        /\ chunksSeen < MaxChunks
        /\ StreamChunk(text)
        /\ chunksSeen' = chunksSeen + 1
        /\ UNCHANGED <<produced, hadDelta, hadSnapshot, unambiguous, besidesStream>>

SpecFeed == InitStream /\ [][Feed]_vars

(***************************************************************************)
(* SpecYouTube: one call of the YouTube provider's fetchTranscript.  The   *)
(* call runs up to its first await in Begin; each <Source>Returns action   *)
(* is the code from one awaited fetcher's return up to the next await, the *)
(* return or the throw.  What a fetcher returns is the environment's       *)
(* choice.                                                                 *)
(***************************************************************************)
Modes == {"auto", "web", "apify", "yt-dlp"}
Sources == {"youtubei", "captionTracks", "apify", "yt-dlp"}
Priority == <<"youtubei", "captionTracks", "apify", "yt-dlp">>

MissingYtDlpPath == "Missing YT_DLP_PATH for --youtube yt-dlp"
MissingTranscriptionKey == "Missing OPENAI_API_KEY or FAL_KEY for --youtube yt-dlp"
YtDlpError == "yt-dlp error"

\* Line 29
hasYtDlpCredentials(o) == o.openaiApiKey \/ o.falApiKey

\* The auto-mode gate that forgets the transcription keys.
canRunYtDlpPathOnly(o) == o.ytDlpPath

\* Line 30
canRunYtDlp(o) == o.ytDlpPath /\ hasYtDlpCredentials(o)

\* A configuration check that forgets the transcription keys.
configErrorPathOnly(o) ==
    IF o.youtubeTranscriptMode = "yt-dlp" /\ ~o.ytDlpPath THEN MissingYtDlpPath
    ELSE NoValue

\* Lines 32-37: the error thrown for explicit yt-dlp mode, or NoValue.
configError(o) ==
    IF o.youtubeTranscriptMode = "yt-dlp" /\ ~o.ytDlpPath THEN MissingYtDlpPath
    ELSE IF o.youtubeTranscriptMode = "yt-dlp" /\ ~hasYtDlpCredentials(o)
         THEN MissingTranscriptionKey
    ELSE NoValue

\* Line 53
tryWeb(o) == o.youtubeTranscriptMode \in {"auto", "web"}

\* The apify gate without its mode test.
tryApifyAlways(o) == TRUE

\* Line 88
tryApify(o) == o.youtubeTranscriptMode \in {"auto", "apify"}

\* Line 106
tryYtDlp(o) ==
    \/ o.youtubeTranscriptMode = "yt-dlp"
    \/ (o.youtubeTranscriptMode = "auto" /\ canRunYtDlp(o))

\* A yt-dlp failure thrown whatever the mode.
throwsYtDlpErrorInAnyMode(o, failed) == failed

\* Line 126: the error of the yt-dlp source is thrown in explicit mode only.
throwsYtDlpError(o, failed) == o.youtubeTranscriptMode = "yt-dlp" /\ failed

\* An early return that forgets the resource id.
shortCircuitsOnHtmlOnly(c) == ~c.html

\* Lines 39-50: no html, or no video id from the resource key or the url.
shortCircuits(c) == ~c.html \/ ~c.videoId

\* notes.length > 0 ? notes.join('; ') : null
joinNotes(ns) == IF Len(ns) > 0 THEN ns ELSE "null"

InitYouTube ==
    /\ options \in [youtubeTranscriptMode : Modes, apifyApiToken : BOOLEAN,
                    ytDlpPath : BOOLEAN, openaiApiKey : BOOLEAN, falApiKey : BOOLEAN]
    /\ context \in [html : BOOLEAN, videoId : BOOLEAN, transcriptConfig : BOOLEAN]
    /\ pc = "start"
    /\ attemptedProviders = <<>>
    /\ calls = <<>>
    /\ yielded = [s \in Sources |-> "not called"]
    /\ notes = <<>>
    /\ result = NoValue
    /\ error = NoValue
    /\ MergeIdle /\ StreamIdle /\ ResolveIdle /\ WhisperIdle
    /\ SegmentsIdle /\ FileIdle /\ ClientIdle

\* The attempt recorded, but the push left out.
AttemptUnlisted(source) ==
    /\ UNCHANGED attemptedProviders
    /\ calls' = Append(calls, source)
    /\ pc' = source
    /\ UNCHANGED <<result, error>>

\* attemptedProviders.push(source), then the await of the source's fetcher.
Attempt(source) ==
    /\ attemptedProviders' = Append(attemptedProviders, source)
    /\ calls' = Append(calls, source)
    /\ pc' = source
    /\ UNCHANGED <<result, error>>

\* A return that lists `unavailable` whatever it returns.
ReturnListingUnavailable(text, source, attempted, ns) ==
    /\ result' = [text |-> text, source |-> source, notes |-> ns]
    /\ attemptedProviders' = Append(attempted, "unavailable")
    /\ pc' = "returned"
    /\ UNCHANGED <<calls, error>>

\* A return of the call.
Return(text, source, attempted, ns) ==
    /\ result' = [text |-> text, source |-> source, notes |-> ns]
    /\ attemptedProviders' = attempted
    /\ pc' = "returned"
    /\ UNCHANGED <<calls, error>>

Throw(e) ==
    /\ error' = e
    /\ pc' = "thrown"
    /\ UNCHANGED <<attemptedProviders, calls, result>>

\* Lines 131-138
Unavailable(ns) ==
    Return("null", "unavailable", Append(attemptedProviders, "unavailable"), joinNotes(ns))

\* Lines 105-138, up to the await of the yt-dlp fetcher
FromYtDlp ==
    IF tryYtDlp(options) THEN Attempt("yt-dlp")
    ELSE Unavailable(notes)

\* Lines 87-94 and on
FromApify ==
    IF tryApify(options) THEN Attempt("apify")
    ELSE FromYtDlp

\* Lines 71-76
FromCaptionTracks == Attempt("captionTracks")

\* Lines 52-60 and on
FromWeb ==
    IF tryWeb(options)
    THEN IF context.transcriptConfig THEN Attempt("youtubei")
         ELSE FromCaptionTracks
    ELSE FromApify

\* Lines 25-50, and on to the first await
Begin ==
    /\ pc = "start"
    /\ IF configError(options) # NoValue THEN Throw(configError(options))
       ELSE IF shortCircuits(context)
            THEN Return("null", "null", attemptedProviders, "absent")
       ELSE FromWeb
    /\ UNCHANGED <<options, context, yielded, notes, besidesYouTube>>

\* Lines 57-69
YoutubeiReturns ==
    /\ pc = "youtubei"
    /\ \E transcript \in {"text", "null"} :
          /\ yielded' = [yielded EXCEPT !["youtubei"] = transcript]
          /\ IF transcript # "null"
             THEN Return(transcript, "youtubei", attemptedProviders, "absent")
             ELSE FromCaptionTracks
    /\ UNCHANGED <<options, context, notes, besidesYouTube>>

\* Lines 72-85
CaptionTracksReturns ==
    /\ pc = "captionTracks"
    /\ \E captionTranscript \in {"text", "null"} :
          /\ yielded' = [yielded EXCEPT !["captionTracks"] = captionTranscript]
          /\ IF captionTranscript # "null"
             THEN Return(captionTranscript, "captionTracks", attemptedProviders, "absent")
             ELSE FromApify
    /\ UNCHANGED <<options, context, notes, besidesYouTube>>

\* Lines 90-103
ApifyReturns ==
    /\ pc = "apify"
    /\ \E apifyTranscript \in {"text", "null"} :
          /\ yielded' = [yielded EXCEPT !["apify"] = apifyTranscript]
          /\ IF apifyTranscript # "null"
             THEN Return(apifyTranscript, "apify", attemptedProviders, "absent")
             ELSE FromYtDlp
    /\ UNCHANGED <<options, context, notes, besidesYouTube>>

\* Lines 108-138: ytdlpResult is {text, error, notes}
YtDlpReturns ==
    /\ pc = "yt-dlp"
    /\ \E text \in {"text", "null"}, failed \in BOOLEAN, ns \in {<<>>, <<"note">>} :
          /\ yielded' = [yielded EXCEPT !["yt-dlp"] =
                             IF text # "null" THEN text
                             ELSE IF failed THEN "failed" ELSE "null"]
          /\ notes' = notes \o ns
          /\ IF text # "null"
             THEN Return(text, "yt-dlp", attemptedProviders, joinNotes(notes \o ns))
             ELSE IF throwsYtDlpError(options, failed) THEN Throw(YtDlpError)
             ELSE Unavailable(notes \o ns)
    /\ UNCHANGED <<options, context, besidesYouTube>>

NextYouTube ==
    \/ Begin
    \/ YoutubeiReturns
    \/ CaptionTracksReturns
    \/ ApifyReturns
    \/ YtDlpReturns

SpecYouTube == InitYouTube /\ [][NextYouTube]_vars

(***************************************************************************)
(* SpecResolve: one call of resolveTranscriptForLink                       *)
(* (src/content/link-preview/transcript/index.ts).  The call selects a     *)
(* provider and awaits its fetchTranscript; for the YouTube provider that  *)
(* is the call modelled above, started with the options the entry point    *)
(* builds, and for the podcast and generic providers it is the             *)
(* environment's choice of a ProviderResult.                               *)
(***************************************************************************)
\* Lines 30-35
PROVIDERS == <<"youtube", "podcast", "generic">>
GENERIC_PROVIDER_ID == "generic"

\* Array.prototype.find: the first element that satisfies P, or NoValue.
find(seq, P(_)) ==
    IF \E i \in 1..Len(seq) : P(seq[i])
    THEN seq[Min({i \in 1..Len(seq) : P(seq[i])})]
    ELSE NoValue

\* A selection that lets the last matching provider win.
selectProviderLastMatch(canHandle) ==
    LET matching == {i \in 1..Len(PROVIDERS) :
                        PROVIDERS[i] # GENERIC_PROVIDER_ID /\ canHandle[PROVIDERS[i]]}
    IN IF matching # {} THEN PROVIDERS[Max(matching)] ELSE GENERIC_PROVIDER_ID

\* Lines 77-92; "throws" stands for the error of line 91.
selectProvider(canHandle) ==
    LET genericProviderModule == find(PROVIDERS, LAMBDA id : id = GENERIC_PROVIDER_ID)
        specializedProvider ==
            find(PROVIDERS, LAMBDA id : id # GENERIC_PROVIDER_ID /\ canHandle[id])
    IN IF specializedProvider # NoValue THEN specializedProvider
       ELSE IF genericProviderModule # NoValue THEN genericProviderModule
       ELSE "throws"

\* Lines 54-58: the options handed to the provider.  No yt-dlp path and no
\* transcription key is among them.
providerOptions(r) ==
    [youtubeTranscriptMode |-> IF r.youtubeTranscriptMode = "undefined" THEN "auto"
                               ELSE r.youtubeTranscriptMode,
     apifyApiToken |-> r.apifyApiToken,
     ytDlpPath |-> FALSE, openaiApiKey |-> FALSE, falApiKey |-> FALSE]

\* What a podcast or generic provider may return: a ProviderResult with or
\* without text and with or without notes.
OtherResults ==
    [text : {"text", "null"}, source : {"html", "null"},
     attemptedProviders : {<<>>, <<"html">>}, notes : {<<>>, <<"note">>}]

InitResolve ==
    /\ request \in [canHandle : [{"youtube", "podcast", "generic"} -> BOOLEAN],
                     html : BOOLEAN, videoId : BOOLEAN, transcriptConfig : BOOLEAN,
                     apifyApiToken : BOOLEAN,
                     ytDlpPath : BOOLEAN, openaiApiKey : BOOLEAN, falApiKey : BOOLEAN,
                     youtubeTranscriptMode : Modes \cup {"undefined"}]
    /\ provider = NoValue
    /\ providerResult = NoValue
    /\ diagnostics = NoValue
    /\ rpc = "start"
    /\ MergeIdle /\ StreamIdle /\ YouTubeIdle /\ WhisperIdle
    /\ SegmentsIdle /\ FileIdle /\ ClientIdle

\* Lines 43-58, up to the await of the provider
ResolveBegin ==
    /\ rpc = "start"
    /\ provider' = selectProvider(request.canHandle)
    /\ rpc' = "executing"
    /\ IF provider' = "youtube"
       THEN /\ options' = providerOptions(request)
            /\ context' = [html |-> request.html, videoId |-> request.videoId,
                           transcriptConfig |-> request.transcriptConfig]
            /\ pc' = "start"
            /\ yielded' = [s \in Sources |-> "not called"]
            /\ UNCHANGED <<attemptedProviders, calls, notes, result, error>>
       ELSE UNCHANGED ytVars
    /\ UNCHANGED <<request, providerResult, diagnostics, besidesResolve>>

\* Lines 59-67
ResolveReturns(r) ==
    /\ providerResult' = r
    /\ diagnostics' = [attemptedProviders |-> r.attemptedProviders,
                       notes |-> <<>>,
                       provider |-> r.source,
                       textProvided |-> (r.text # "null")]
    /\ rpc' = "returned"
    /\ UNCHANGED <<request, provider, ytVars, besidesResolve>>

YouTubeProviderReturns ==
    /\ rpc = "executing" /\ provider = "youtube" /\ pc = "returned"
    /\ ResolveReturns([text |-> result.text, source |-> result.source,
                       attemptedProviders |-> attemptedProviders, notes |-> notes])

\* fetchTranscript throws and nothing catches it.
YouTubeProviderThrows ==
    /\ rpc = "executing" /\ provider = "youtube" /\ pc = "thrown"
    /\ rpc' = "thrown"
    /\ UNCHANGED <<request, provider, providerResult, diagnostics, ytVars, besidesResolve>>

OtherProviderReturns ==
    /\ rpc = "executing" /\ provider \in {"podcast", "generic"}
    /\ \E r \in OtherResults : ResolveReturns(r)

\* The yt-dlp source is never awaited here: providerOptions carries no
\* ytDlpPath, so explicit yt-dlp mode throws in Begin and auto skips it.
NextResolve ==
    \/ ResolveBegin
    \/ Begin
    \/ YoutubeiReturns
    \/ CaptionTracksReturns
    \/ ApifyReturns
    \/ YouTubeProviderReturns
    \/ YouTubeProviderThrows
    \/ OtherProviderReturns

SpecResolve == InitResolve /\ [][NextResolve]_vars

(***************************************************************************)
(* SpecWhisper: one call of the transcription engine                       *)
(* (src/transcription/whisper.ts), entered through                         *)
(* transcribeMediaWithWhisper (bytes in memory) or                         *)
(* transcribeMediaFileWithWhisper (a file).  Each of the two can call the  *)
(* other, so the calls in progress are frames on wstack; an action is the  *)
(* code of the innermost frame from one await to the next.  What the local *)
(* engine, the remote providers and ffmpeg answer is the environment's     *)
(* choice; which of them are installed or configured is fixed for the      *)
(* call.  Bytes are sequences of blocks; the input is <<1, ..., size>>.    *)
(***************************************************************************)
\* MAX_OPENAI_UPLOAD_BYTES (line 10), counted in blocks, and the sizes of
\* the inputs and the number of segments ffmpeg may produce.
MAX_OPENAI_UPLOAD_BYTES == 2
MaxBytes == 3
MaxSegments == 2

NullText == <<>>

\* Errors of the results, by their messages.
NoProvidersConfigured ==
    "No transcription providers available (install whisper-cpp or set OPENAI_API_KEY or FAL_KEY)"
NoProvidersAvailable == "No transcription providers available"
NoSegments == "ffmpeg produced no audio segments"
OpenAiEmpty == "OpenAI transcription returned empty text"
OpenAiEmptyAfterTranscode == "OpenAI transcription returned empty text after ffmpeg transcode"
OpenAiUndecodable == "OpenAI transcription failed: could not be decoded"
OpenAiFailed == "OpenAI transcription failed"
FalEmpty == "FAL transcription returned empty text"
FalFailed == "FAL transcription failed"
SegmentingFailed == "ffmpeg failed"
CallbackError == "error thrown by onProgress"

\* Notes, by what they say.
LocalNote == "whisper.cpp: model"
LocalTranscodedNote == "whisper.cpp: transcoded media to MP3 via ffmpeg"
LocalFailedNote == "whisper.cpp failed; falling back to remote Whisper"
FirstBytesOnlyNote == "Media too large for Whisper upload; transcribing first bytes only"
TooLargeNote == "Media too large for Whisper upload; install ffmpeg to enable chunked transcription"
TranscodingNote == "OpenAI could not decode media; transcoding via ffmpeg and retrying"
TranscodeFailedNote == "ffmpeg transcode failed; cannot retry OpenAI decode error"
NoTranscodeNote == "OpenAI could not decode media; install ffmpeg to enable transcoding retry"
FalFallbackNote == "OpenAI transcription failed; falling back to FAL"
SkippingFalNote == "Skipping FAL transcription: unsupported mediaType"
ChunkedNote == "ffmpeg chunked media into parts"

\* Media types, as type/subtype.
AudioMpeg == [type |-> "audio", subtype |-> "mpeg"]
MediaTypes == {AudioMpeg, [type |-> "AUDIO", subtype |-> "wav"],
               [type |-> "video", subtype |-> "mp4"]}

toLowerCase(word) == IF word = "AUDIO" THEN "audio" ELSE word

\* mediaType.toLowerCase().startsWith('audio/')
isAudio(mediaType) == toLowerCase(mediaType.type) = "audio"

\* A FAL gate that forgets the media type.
canUseFalAnyType(env, mediaType) == env.falApiKey

\* Line 413
canUseFal(env, mediaType) == env.falApiKey /\ isAudio(mediaType)

\* A check for remote keys that never fires.
noRemoteKeysNever(env) == FALSE

\* Lines 329 and 532
noRemoteKeys(env) == ~env.openaiApiKey /\ ~env.falApiKey

\* A retry after any failure of OpenAI.
shouldRetryAlways(err) == TRUE

\* Lines 451-458
shouldRetryOpenAiViaFfmpeg(err) == err = OpenAiUndecodable

\* A truncation that keeps every byte.
firstBytesUncut(bytes, n) == bytes

\* bytes.slice(0, n), and readFirstBytes (lines 973-982)
firstBytes(bytes, n) == SubSeq(bytes, 1, Min({n, Len(bytes)}))

\* The output of transcodeBytesToMp3, and the bytes of the i-th segment file.
Mp3Bytes == <<0>>
SegmentBytes(i) == <<0 - i>>

WhisperResult(text, prov, err, ns) ==
    [text |-> text, provider |-> prov, error |-> err, notes |-> ns]

RECURSIVE join(_)
\* parts.join('\n\n')
join(parts) == IF parts = <<>> THEN <<>> ELSE Head(parts) \o join(Tail(parts))

\* A failed segment that still hands back the text of the segments before it.
segmentFailureWithPartialText(parts, used, err, ns) ==
    WhisperResult(join(parts), used, err, ns)

\* No segment result counts as a failure.
segmentFailedNever(r) == FALSE

\* Line 604
segmentFailed(r) == r.error # "null" /\ r.text = NullText

\* Line 605
segmentFailure(parts, used, err, ns) == WhisperResult(NullText, used, err, ns)

\* A frame: the function, where it is, and its parameters and locals.  name
\* is 0 for the input and i for the i-th segment; the text a provider returns
\* for the media named n is <<n>>.
Frame(fn, name, bytes, mediaType) ==
    [fn |-> fn, pc |-> "start", name |-> name, bytes |-> bytes,
     mediaType |-> mediaType, notes |-> <<>>, openaiError |-> "null",
     parts |-> <<>>, usedProvider |-> "null", files |-> 0, index |-> 0]

Top == wstack[Len(wstack)]
At(fn, pc0) == wstatus = "running" /\ wstack # <<>> /\ Top.fn = fn /\ Top.pc = pc0
Resumed(fn, pc0) == At(fn, pc0) /\ wret # <<>>

InitWhisper ==
    /\ wenv \in [localReady : BOOLEAN, ffmpeg : BOOLEAN,
                 openaiApiKey : BOOLEAN, falApiKey : BOOLEAN]
    /\ winput \in [entry : {"media", "file"},
                   size : MAX_OPENAI_UPLOAD_BYTES..MaxBytes,
                   mediaType : MediaTypes]
    /\ wstack = <<Frame(winput.entry, 0, [i \in 1..winput.size |-> i], winput.mediaType)>>
    /\ wret = <<>>
    /\ wcalls = <<>>
    /\ wstatus = "running"
    /\ wrecorded = {}
    /\ wsegs = <<>> /\ wtemp = {} /\ winflight = {} /\ werror = "null"
    /\ MergeIdle /\ StreamIdle /\ YouTubeIdle /\ ResolveIdle
    /\ SegmentsIdle /\ FileIdle /\ ClientIdle

\* The notes held by the frames of a stack and by a returned result.
NotesIn(stack, ret) ==
    UNION ({{stack[i].notes[k] : k \in 1..Len(stack[i].notes)} : i \in 1..Len(stack)}
           \cup {{ret[i].notes[k] : k \in 1..Len(ret[i].notes)} : i \in 1..Len(ret)})

\* Every step records the notes it pushed.
Record == wrecorded' = wrecorded \cup NotesIn(wstack', wret')

\* Lines 103-116
isWhisperCppSupportedMediaType(mediaType) ==
    \/ /\ toLowerCase(mediaType.type) = "audio"
       /\ mediaType.subtype \in {"mpeg", "mp3", "mpga", "ogg", "oga", "flac", "x-wav", "wav"}
    \/ toLowerCase(mediaType.type) = "application" /\ mediaType.subtype = "ogg"

\* Lines 140-141: canTranscode
localTranscodes(env, mediaType) ==
    ~isWhisperCppSupportedMediaType(mediaType) /\ env.ffmpeg

\* Lines 140-151: the local engine starts the whisper-cli process
localRuns(env, mediaType) ==
    isWhisperCppSupportedMediaType(mediaType) \/ env.ffmpeg

\* Lines 129, 168-175 and 264: the notes the local engine can hand back; the
\* model note is pushed on success only, the transcode note once ffmpeg has
\* written the MP3.
localNotes(env, mediaType) ==
    IF localTranscodes(env, mediaType)
    THEN {<<>>, <<LocalTranscodedNote>>, <<LocalTranscodedNote, LocalNote>>}
    ELSE {<<>>, <<LocalNote>>}

\* A temporary file or directory of the call at a depth of the stack, made for
\* the media of a name (the paths carry a random UUID each).
TempFile(kind, depth, name) == [kind |-> kind, depth |-> depth, name |-> name]

\* The temporary files a call holds while it awaits at f.pc: each is created
\* at the top of a try block whose finally removes it (lines 152-162 and
\* 266-268, 296-326, 341-358, 460-475, 562-626).
heldFiles(f, depth) ==
    IF f.pc = "local"
    THEN (IF f.fn = "media" THEN {TempFile("local-input", depth, f.name)} ELSE {})
         \cup (IF localTranscodes(wenv, f.mediaType)
               THEN {TempFile("local-mp3", depth, f.name)} ELSE {})
    ELSE IF f.fn = "media" /\ f.pc = "chunked"
         THEN {TempFile("chunk-input", depth, f.name)}
    ELSE IF f.fn = "media" /\ f.pc = "transcode"
         THEN {TempFile("transcode-input", depth, f.name),
               TempFile("transcode-output", depth, f.name)}
    ELSE IF f.fn = "file" /\ f.pc \in {"segmenting", "segment"}
         THEN {TempFile("segments-dir", depth, f.name)}
    ELSE {}

\* Lines 184-185: the output file of the local engine run by the innermost call
outputTxt == TempFile("whisper-output", Len(wstack), Top.name)

\* The files after a step: the output files whisper-cli wrote, less the ones
\* the step unlinked (line 254), and the files the calls in progress hold.
Temp(unlinked) ==
    wtemp' = ({t \in wtemp : t.kind = "whisper-output"} \ unlinked)
             \cup UNION {heldFiles(wstack'[k], k) : k \in 1..Len(wstack')}

\* What a call awaits at each of its stops that start a provider request or a
\* subprocess: whisper-cli (line 203), the OpenAI request (lines 370 and 394),
\* ffmpeg (lines 387 and 565) and the FAL request (line 422).
awaited(stack) ==
    IF stack = <<>> THEN {}
    ELSE LET f == stack[Len(stack)]
         IN IF f.pc \in {"local", "openai", "transcode", "retry", "fal", "segmenting"}
            THEN {[step |-> f.pc, depth |-> Len(stack), name |-> f.name]}
            ELSE {}

\* No request is aborted when its timeout fires.
abortsOnTimeoutNever(prov) == FALSE

\* Line 699 gives the OpenAI request an abort signal; lines 751-760 race the
\* FAL subscription against a timer and leave it running when the timer wins.
abortsOnTimeout(prov) == prov = "openai"

\* The request a provider's timeout leaves behind.
abandoned(prov) == IF abortsOnTimeout(prov) THEN {} ELSE awaited(wstack)

\* The requests and subprocesses after a step: the awaited one has ended
\* unless the step left it behind, and the one now awaited has started.
Flight(left) ==
    winflight' = ((winflight \ awaited(wstack)) \cup left) \cup awaited(wstack')

\* The innermost call goes on as frame f, awaiting at pc0.
Await(f, pc0) ==
    /\ wstack' = [wstack EXCEPT ![Len(wstack)] = [f EXCEPT !.pc = pc0]]
    /\ wret' = <<>>
    /\ Record
    /\ UNCHANGED <<wcalls, wstatus, werror>>

\* The innermost call, as frame f, awaits a provider given bytes of a media type.
CallProvider(f, pc0, prov, bytes, mediaType) ==
    /\ wstack' = [wstack EXCEPT ![Len(wstack)] = [f EXCEPT !.pc = pc0]]
    /\ wcalls' = Append(wcalls, [provider |-> prov, bytes |-> bytes,
                                 mediaType |-> mediaType, name |-> f.name,
                                 openaiError |-> f.openaiError,
                                 depth |-> Len(wstack)])
    /\ wret' = <<>>
    /\ Record
    /\ UNCHANGED <<wstatus, werror>>

\* The innermost call, as frame f, awaits a call of the other function.
CallNested(f, pc0, callee) ==
    /\ wstack' = Append([wstack EXCEPT ![Len(wstack)] = [f EXCEPT !.pc = pc0]], callee)
    /\ wret' = <<>>
    /\ Record
    /\ UNCHANGED <<wcalls, wstatus, werror>>

\* The innermost call returns r.
ReturnResult(r) ==
    /\ wstack' = SubSeq(wstack, 1, Len(wstack) - 1)
    /\ wret' = <<r>>
    /\ wstatus' = IF Len(wstack) = 1 THEN "returned" ELSE wstatus
    /\ Record
    /\ UNCHANGED <<wcalls, werror>>

\* An exception nothing catches leaves every call in progress.
ThrowOut(err) ==
    /\ wstack' = <<>>
    /\ wret' = <<>>
    /\ wstatus' = "thrown"
    /\ werror' = err
    /\ UNCHANGED <<wcalls, wrecorded>>

\* The innermost call was handed the caller's onProgress: the outermost call,
\* and the file call of the chunked path (line 353); the calls for a segment
\* get null (line 600) and the other nested calls none (lines 545-553, 631-637).
onProgressPassed(stack) ==
    Len(stack) = 1 \/ (Len(stack) = 2 /\ stack[1].pc = "chunked")

\* onProgress?.(...) outside any try block with a catch: what the callback
\* throws leaves the call.
CallbackThrows == onProgressPassed(wstack) /\ ThrowOut(CallbackError)

\* Lines 413-448, up to the await of FAL
ToFal(f) ==
    LET fal == canUseFal(wenv, f.mediaType)
        fallback == IF f.openaiError # "null" /\ fal
                    THEN Append(f.notes, FalFallbackNote) ELSE f.notes
        ns == IF wenv.falApiKey /\ ~fal
              THEN Append(fallback, SkippingFalNote) ELSE fallback
        g == [f EXCEPT !.notes = ns]
    IN IF wenv.falApiKey /\ fal
       THEN CallProvider(g, "fal", "fal", g.bytes, g.mediaType)
       ELSE ReturnResult(WhisperResult(NullText,
                                       IF wenv.openaiApiKey THEN "openai" ELSE "null",
                                       IF f.openaiError # "null" THEN f.openaiError
                                       ELSE NoProvidersAvailable,
                                       ns))

\* Lines 367-370
ToOpenAi(f) ==
    IF wenv.openaiApiKey THEN CallProvider(f, "openai", "openai", f.bytes, f.mediaType)
    ELSE ToFal(f)

\* Lines 329-365 of transcribeMediaWithWhisper
AfterLocalMedia(f) ==
    IF noRemoteKeys(wenv)
    THEN ReturnResult(WhisperResult(NullText, "null", NoProvidersConfigured, f.notes))
    ELSE IF wenv.openaiApiKey /\ Len(f.bytes) > MAX_OPENAI_UPLOAD_BYTES
         THEN IF wenv.ffmpeg
              THEN CallNested(f, "chunked", Frame("file", f.name, f.bytes, f.mediaType))
              ELSE ToOpenAi([f EXCEPT !.notes = Append(@, FirstBytesOnlyNote),
                                      !.bytes = firstBytes(@, MAX_OPENAI_UPLOAD_BYTES)])
    ELSE ToOpenAi(f)

\* Lines 532-561 and 629-642 of transcribeMediaFileWithWhisper
AfterLocalFile(f) ==
    IF noRemoteKeys(wenv)
    THEN ReturnResult(WhisperResult(NullText, "null", NoProvidersConfigured, f.notes))
    ELSE IF wenv.openaiApiKey /\ Len(f.bytes) > MAX_OPENAI_UPLOAD_BYTES
         THEN IF ~wenv.ffmpeg
              THEN CallNested([f EXCEPT !.notes = Append(@, TooLargeNote)], "partial",
                              Frame("media", f.name,
                                    firstBytes(f.bytes, MAX_OPENAI_UPLOAD_BYTES),
                                    f.mediaType))
              ELSE Await(f, "segmenting")
    ELSE \/ CallNested(f, "whole", Frame("media", f.name, f.bytes, f.mediaType))
         \/ CallbackThrows

AfterLocal(f) == IF f.fn = "media" THEN AfterLocalMedia(f) ELSE AfterLocalFile(f)

\* Lines 288-302 and 496-513: isWhisperCppReady, then the local engine
Start ==
    /\ wstatus = "running" /\ wstack # <<>> /\ Top.pc = "start"
    /\ IF wenv.localReady
       THEN \/ CallProvider(Top, "local", "whisper.cpp", Top.bytes, Top.mediaType)
            \/ Top.fn = "file" /\ CallbackThrows
       ELSE AfterLocal(Top)
    /\ Temp({})
    /\ Flight({})
    /\ UNCHANGED <<wenv, winput, wsegs, besidesWhisper>>

\* Lines 302-327 and 508-530: the local engine returns text, or fails or throws
LocalReturns ==
    /\ wstatus = "running" /\ wstack # <<>> /\ Top.pc = "local"
    /\ \E ok \in BOOLEAN, unlinks \in BOOLEAN, ns \in localNotes(wenv, Top.mediaType) :
          /\ ok => unlinks /\ outputTxt \in wtemp
          /\ ok <=> (ns # <<>> /\ ns[Len(ns)] = LocalNote)
          /\ IF ok
             THEN ReturnResult(WhisperResult(<<Top.name>>, "whisper.cpp", "null",
                                             Top.notes \o ns))
             ELSE AfterLocal([Top EXCEPT !.notes = Append(@ \o ns, LocalFailedNote)])
          /\ Temp(IF unlinks THEN {outputTxt} ELSE {})
    /\ Flight({})
    /\ UNCHANGED <<wenv, winput, wsegs, besidesWhisper>>

\* Lines 184-203: the whisper-cli process writes the file named by --output-file
WhisperCliWritesOutput ==
    /\ wstatus = "running" /\ wstack # <<>> /\ Top.pc = "local"
    /\ localRuns(wenv, Top.mediaType)
    /\ outputTxt \notin wtemp
    /\ wtemp' = wtemp \cup {outputTxt}
    /\ UNCHANGED <<wenv, winput, wstack, wret, wcalls, wstatus, wrecorded, wsegs,
                   winflight, werror, besidesWhisper>>

\* Lines 346-358
ChunkedReturns ==
    /\ Resumed("media", "chunked")
    /\ ReturnResult(wret[1])
    /\ Temp({})
    /\ Flight({})
    /\ UNCHANGED <<wenv, winput, wsegs, besidesWhisper>>

\* Lines 370-411, up to the await of the transcode
OpenAiReturns ==
    /\ At("media", "openai")
    /\ \E outcome \in {"text", "empty", "undecodable", "failed", "timeout"} :
          /\ IF outcome = "text"
             THEN ReturnResult(WhisperResult(<<Top.name>>, "openai", "null", Top.notes))
             ELSE LET err == IF outcome = "empty" THEN OpenAiEmpty
                             ELSE IF outcome = "undecodable" THEN OpenAiUndecodable
                             ELSE OpenAiFailed
                      f == [Top EXCEPT !.openaiError = err]
                  IN IF shouldRetryOpenAiViaFfmpeg(err)
                     THEN IF wenv.ffmpeg
                          THEN Await([f EXCEPT !.notes = Append(@, TranscodingNote)],
                                     "transcode")
                          ELSE ToFal([f EXCEPT !.notes = Append(@, NoTranscodeNote)])
                     ELSE ToFal(f)
          /\ Flight(IF outcome = "timeout" THEN abandoned("openai") ELSE {})
    /\ Temp({})
    /\ UNCHANGED <<wenv, winput, wsegs, besidesWhisper>>

\* Lines 387-393 and 401-407: transcodeBytesToMp3 returns or throws
TranscodeReturns ==
    /\ At("media", "transcode")
    /\ \E ok \in BOOLEAN :
          IF ok THEN CallProvider(Top, "retry", "openai", Mp3Bytes, AudioMpeg)
          ELSE ToFal([Top EXCEPT !.notes = Append(@, TranscodeFailedNote)])
    /\ Temp({})
    /\ Flight({})
    /\ UNCHANGED <<wenv, winput, wsegs, besidesWhisper>>

\* Lines 394-407: the retried OpenAI call returns or throws
RetryReturns ==
    /\ At("media", "retry")
    /\ \E outcome \in {"text", "empty", "failed", "timeout"} :
          /\ IF outcome = "text"
             THEN ReturnResult(WhisperResult(<<Top.name>>, "openai", "null", Top.notes))
             ELSE IF outcome = "empty"
                  THEN ToFal([Top EXCEPT !.openaiError = OpenAiEmptyAfterTranscode,
                                         !.bytes = Mp3Bytes,
                                         !.mediaType = AudioMpeg])
             ELSE ToFal([Top EXCEPT !.notes = Append(@, TranscodeFailedNote)])
          /\ Flight(IF outcome = "timeout" THEN abandoned("openai") ELSE {})
    /\ Temp({})
    /\ UNCHANGED <<wenv, winput, wsegs, besidesWhisper>>

\* Lines 422-440
FalReturns ==
    /\ At("media", "fal")
    /\ \E outcome \in {"text", "empty", "failed", "timeout"} :
          /\ ReturnResult(
                 IF outcome = "text" THEN WhisperResult(<<Top.name>>, "fal", "null", Top.notes)
                 ELSE IF outcome = "empty"
                      THEN WhisperResult(NullText, "fal", FalEmpty, Top.notes)
                 ELSE WhisperResult(NullText, "fal", FalFailed, Top.notes))
          /\ Flight(IF outcome = "timeout" THEN abandoned("fal") ELSE {})
    /\ Temp({})
    /\ UNCHANGED <<wenv, winput, wsegs, besidesWhisper>>

\* Lines 551-559 and 636-644
NestedReturns ==
    /\ Resumed("file", "partial") \/ Resumed("file", "whole")
    /\ ReturnResult([wret[1] EXCEPT !.notes = Top.notes \o @])
    /\ Temp({})
    /\ Flight({})
    /\ UNCHANGED <<wenv, winput, wsegs, besidesWhisper>>

\* The await of the transcription of the segment after the index-th
NextSegment(f) ==
    CallNested(f, "segment",
               Frame("media", f.index + 1, SegmentBytes(f.index + 1), AudioMpeg))

\* Lines 562-602: runFfmpegSegment writes its segment files, or fails
SegmentingReturns ==
    /\ At("file", "segmenting")
    /\ \/ ThrowOut(SegmentingFailed)
       \/ \E files \in 0..MaxSegments :
             IF files = 0
             THEN ReturnResult(WhisperResult(NullText, "null", NoSegments, Top.notes))
             ELSE \/ NextSegment([Top EXCEPT !.notes = Append(@, ChunkedNote),
                                             !.files = files])
                  \/ CallbackThrows
    /\ Temp({})
    /\ Flight({})
    /\ UNCHANGED <<wenv, winput, wsegs, besidesWhisper>>

\* Lines 603-623: one segment's transcription returns
SegmentReturns ==
    /\ Resumed("file", "segment")
    /\ LET r == wret[1]
           used == IF Top.usedProvider = "null" /\ r.provider # "null"
                   THEN r.provider ELSE Top.usedProvider
           parts == IF r.text # NullText THEN Append(Top.parts, r.text) ELSE Top.parts
           f == [Top EXCEPT !.usedProvider = used, !.parts = parts, !.index = @ + 1]
       IN IF segmentFailed(r)
          THEN ReturnResult(segmentFailure(Top.parts, used, r.error, Top.notes))
          ELSE \/ IF f.index < f.files THEN NextSegment(f)
                  ELSE ReturnResult(WhisperResult(join(parts), used, "null", Top.notes))
               \/ CallbackThrows
    /\ wsegs' = Append(wsegs, [name |-> Top.index + 1, text |-> wret[1].text,
                                error |-> wret[1].error])
    /\ Temp({})
    /\ Flight({})
    /\ UNCHANGED <<wenv, winput, besidesWhisper>>

NextWhisper ==
    \/ Start
    \/ LocalReturns
    \/ WhisperCliWritesOutput
    \/ ChunkedReturns
    \/ OpenAiReturns
    \/ TranscodeReturns
    \/ RetryReturns
    \/ FalReturns
    \/ NestedReturns
    \/ SegmentingReturns
    \/ SegmentReturns

SpecWhisper == InitWhisper /\ [][NextWhisper]_vars

\* Lines 203, 565, 387 and 749: whisper-cli and ffmpeg are spawned with no
\* timeout and nothing kills them, and the FAL upload has no timeout: a step
\* that hangs is awaited for ever.
StepHangs ==
    /\ wstatus = "running" /\ wstack # <<>>
    /\ Top.pc \in {"local", "transcode", "segmenting", "fal"}
    /\ wstack' = [wstack EXCEPT ![Len(wstack)] = [Top EXCEPT !.pc = "hung"]]
    /\ UNCHANGED <<wenv, winput, wret, wcalls, wstatus, wrecorded, wsegs, wtemp,
                   winflight, werror, besidesWhisper>>

\* The call on MP3 input, with steps that may hang.
InitWhisperFair == InitWhisper /\ winput.mediaType = AudioMpeg

NextWhisperFair == NextWhisper \/ StepHangs

\* Every step that has not hung ends: a process exits, a request is answered
\* or its timeout fires.
SpecWhisperFair ==
    InitWhisperFair /\ [][NextWhisperFair]_vars /\ WF_vars(NextWhisper)

(***************************************************************************)
(* Claims about the stream reconciler.                                     *)
(***************************************************************************)

\* C1 as stated: in a session of true deltas and cumulative snapshots in any
\* mix, the rendered output (the `appended`s written in turn) equals the text
\* the provider produced.  The two are compared up to the form of their line
\* endings, so that only a duplicated or dropped character tells them apart.
C1_RenderedIsProduced ==
    normalizeStreamText(rendered) = normalizeStreamText(produced)

\* C1, amended: the rendered output equals the text the provider produced, with
\* its line endings normalised, provided no delta chunk is related by one of
\* the resend rules to the text produced before it.
C1_RenderedIsProducedUnlessAmbiguous ==
    unambiguous => rendered = normalizeStreamText(produced)

C1_Witness ==
    /\ unambiguous /\ hadDelta /\ hadSnapshot
    /\ chunksSeen >= 3 /\ Len(produced) >= 3
    /\ rendered = normalizeStreamText(produced)

\* C2 as stated: merging any sequence of true deltas from the empty text ends
\* with `next` equal to the plain concatenation of the deltas (compared, as in
\* C1, up to the form of the line endings).
C2_DeltasConcatenate ==
    ~hadSnapshot => normalizeStreamText(streamed) = normalizeStreamText(produced)

\* C2, amended: merging a sequence of true deltas from the empty text ends with
\* `next` equal to the concatenation of the deltas with its line endings
\* normalised, provided no delta is related by one of the resend rules to the
\* deltas before it.
C2_DeltasConcatenateUnlessAmbiguous ==
    (~hadSnapshot /\ unambiguous) => streamed = normalizeStreamText(produced)

C2_Witness ==
    /\ ~hadSnapshot /\ unambiguous
    /\ chunksSeen >= 2 /\ Len(produced) >= 2
    /\ streamed = normalizeStreamText(produced)

\* C3 as stated: for every previous and suffix, the merge of previous with
\* previous + suffix returns next = previous + suffix and appended = suffix.
C3_ExtensionReturned ==
    (mergeCalls = 1 /\ startsWith(chunk, previous)) =>
        /\ merged.next = chunk
        /\ merged.appended = slice(chunk, Len(previous))

\* C4 as stated: for every previous and every chunk that is a prefix of
\* previous, the merge returns next = previous and an empty appended, however
\* often the chunk is received again.
C4_ResendChangesNothing ==
    (mergeCalls >= 1 /\ startsWith(previous0, chunk)) =>
        /\ merged.next = previous0
        /\ merged.appended = <<>>

\* C5 as stated: the merge returns the characters of its inputs unchanged, line
\* endings included: appended is an ending of chunk as given, and next is
\* previous as given followed by an ending of chunk as given (or chunk itself).
C5_ReturnsInputCharacters ==
    mergeCalls = 1 =>
        /\ \E k \in 0..Len(chunk) : merged.appended = slice(chunk, k)
        /\ \/ merged.next = chunk
           \/ \E k \in 0..Len(chunk) : merged.next = previous \o slice(chunk, k)

(***************************************************************************)
(* Claims about the YouTube transcript resolver.                           *)
(***************************************************************************)
(* SpecSegments: the order of the segments of one chunked transcription,   *)
(* lines 562-623 of transcribeMediaFileWithWhisper.  ffmpeg's segment      *)
(* muxer numbers its output files from 0 through the pattern               *)
(* part-%03d.mp3; the code sorts the names it reads from the directory     *)
(* and transcribes the files in that order.  Every segment is transcribed  *)
(* with success here: the text of the segment ffmpeg numbered i is <<i>>.  *)
(***************************************************************************)
\* The width of %03d in the pattern (line 564).
PadWidth == 3

\* The numbers of segments: few, as many as the width holds, and one more.
SegmentCounts == {1, 2, 10 ^ PadWidth, 10 ^ PadWidth + 1}

\* The character after the digits of a name ('.' of ".mp3"), which collates
\* before every digit; the prefix "part-" is the same in all names.
Dot == 0 - 1

\* The separator of parts.join('\n\n'), as one character of a text.
BlankLine == 0 - 2

RECURSIVE digits(_)
\* The decimal digits of a number.
digits(n) == IF n < 10 THEN <<n>> ELSE Append(digits(n \div 10), n % 10)

\* printf's %03d: zero padding up to the width, never a truncation.
padded(n) ==
    LET d == digits(n)
    IN [k \in 1..(PadWidth - Len(d)) |-> 0] \o d

\* The name of ffmpeg's segment file number n, after "part-".
segmentName(n) == Append(padded(n), Dot)

RECURSIVE number(_)
\* The number a sequence of digits denotes.
number(d) == IF d = <<>> THEN 0 ELSE 10 * number(SubSeq(d, 1, Len(d) - 1)) + d[Len(d)]

\* The number of the segment a file name belongs to.
segmentOf(name) == number(SubSeq(name, 1, Len(name) - 1))

\* a.localeCompare(b) < 0 on two names: the first character that differs decides.
localeCompareLess(a, b) ==
    \E k \in 1..Min({Len(a), Len(b)}) :
        /\ a[k] < b[k]
        /\ \A j \in 1..(k - 1) : a[j] = b[j]

\* Lines 570-572: the names read from the directory, sorted
sortedFiles(n) == SortSeq([i \in 1..n |-> segmentName(i - 1)], localeCompareLess)

RECURSIVE joinParts(_)
\* Line 623: parts.join('\n\n')
joinParts(parts) ==
    IF Len(parts) <= 1 THEN join(parts)
    ELSE LET half == Len(parts) \div 2
         IN joinParts(SubSeq(parts, 1, half)) \o <<BlankLine>>
            \o joinParts(SubSeq(parts, half + 1, Len(parts)))

InitSegments ==
    /\ sgCount \in SegmentCounts
    /\ sgFiles = <<>> /\ sgCalls = <<>> /\ sgParts = <<>> /\ sgText = NoValue
    /\ MergeIdle /\ StreamIdle /\ YouTubeIdle /\ ResolveIdle /\ WhisperIdle /\ FileIdle
    /\ ClientIdle

\* Lines 565-572: runFfmpegSegment has written its files; readdir, filter, sort
SegmentFilesSorted ==
    /\ sgCount > 0 /\ sgFiles = <<>>
    /\ sgFiles' = sortedFiles(sgCount)
    /\ UNCHANGED <<sgCount, sgCalls, sgParts, sgText, besidesSegments>>

\* Lines 592-608: the next file of the list is transcribed and its text pushed
SegmentTranscribed ==
    /\ sgFiles # <<>> /\ Len(sgCalls) < Len(sgFiles)
    /\ LET name == sgFiles[Len(sgCalls) + 1]
       IN /\ sgCalls' = Append(sgCalls, name)
          /\ sgParts' = Append(sgParts, <<segmentOf(name)>>)
    /\ UNCHANGED <<sgCount, sgFiles, sgText, besidesSegments>>

\* Line 623
SegmentsJoined ==
    /\ sgFiles # <<>> /\ Len(sgCalls) = Len(sgFiles) /\ sgText = NoValue
    /\ sgText' = joinParts(sgParts)
    /\ UNCHANGED <<sgCount, sgFiles, sgCalls, sgParts, besidesSegments>>

NextSegments == SegmentFilesSorted \/ SegmentTranscribed \/ SegmentsJoined

SpecSegments == InitSegments /\ [][NextSegments]_vars

(***************************************************************************)
(* SpecMediaFile: one call of summarizeMediaFile on a local file.  The     *)
(* function runs without a pause up to its await of fetchLinkContent.      *)
(***************************************************************************)
\* An environment value: not set, set to the empty string, or set.
EnvValues == {"unset", "empty", "set"}

SetupError == "Audio file transcription requires one of the following"
EmptyFileError == "Audio file is empty"
TooLargeError == "Audio file is too large"
AccessError == "Unable to access audio file"
NoTranscriptError == "Failed to transcribe audio file"
TranscriptionFailedError == "Transcription failed"

\* The truth value of an environment value in a condition.
truthy(value) == value = "set"

\* A check that lets every environment through.
hasAnyTranscriptionProviderAlways(env) == TRUE

\* Lines 56-61
hasAnyTranscriptionProvider(env) ==
    \/ truthy(env.OPENAI_API_KEY)
    \/ truthy(env.FAL_KEY)
    \/ truthy(env.SUMMARIZE_WHISPER_CPP_BINARY)

\* whisper.ts, lines 43-45
isWhisperCppEnabled(env) == env.SUMMARIZE_DISABLE_LOCAL_WHISPER_CPP # "1"

\* whisper.ts, lines 36-41: local whisper.cpp is enabled, the binary answers
\* --help with exit code 0, and a model file is found
isWhisperCppReady(env) ==
    /\ isWhisperCppEnabled(env)
    /\ env.whisperCliAvailable
    /\ env.whisperModelFile

\* whisper.ts, lines 290-292 and 329: the engine has a provider to attempt
engineHasProvider(env) ==
    \/ isWhisperCppReady(env)
    \/ truthy(env.OPENAI_API_KEY)
    \/ truthy(env.FAL_KEY)

\* Lines 85-104: the error of the size validation, "null" when the file passes
validationError(file) ==
    IF file = "missing" THEN AccessError
    ELSE IF file = "empty" THEN EmptyFileError
    ELSE IF file = "too large" THEN TooLargeError
    ELSE "null"

InitMediaFile ==
    /\ menv \in [OPENAI_API_KEY : EnvValues, FAL_KEY : EnvValues,
                 SUMMARIZE_WHISPER_CPP_BINARY : EnvValues,
                 SUMMARIZE_DISABLE_LOCAL_WHISPER_CPP : {"unset", "1"},
                 whisperCliAvailable : BOOLEAN, whisperModelFile : BOOLEAN]
    /\ mfile \in {"missing", "empty", "ok", "too large"}
    /\ mpc = "start"
    /\ mlog = <<>>
    /\ merror = NoValue
    /\ MergeIdle /\ StreamIdle /\ YouTubeIdle /\ ResolveIdle /\ WhisperIdle
    /\ SegmentsIdle /\ ClientIdle

\* Lines 55-155: the provider check, the path, the two statSync calls, the
\* clients, and the call of fetchLinkContent
SummarizeMediaFileBegins ==
    /\ mpc = "start"
    /\ IF ~hasAnyTranscriptionProvider(menv)
       THEN mpc' = "thrown" /\ merror' = SetupError /\ mlog' = mlog
       ELSE LET accessed == mlog \o <<"resolvePath", "statSync", "statSync">>
            IN IF validationError(mfile) # "null"
               THEN /\ mpc' = "thrown"
                    /\ merror' = validationError(mfile)
                    /\ mlog' = accessed
               ELSE /\ mpc' = "fetchLinkContent"
                    /\ merror' = merror
                    /\ mlog' = Append(accessed, "fetchLinkContent")
    /\ UNCHANGED <<menv, mfile, besidesFile>>

\* Lines 155-195 and 196-204: fetchLinkContent returns content or none, or throws
FetchLinkContentReturns ==
    /\ mpc = "fetchLinkContent"
    /\ \E outcome \in {"content", "empty", "throws"} :
          IF outcome = "content"
          THEN mpc' = "summarizeAsset" /\ merror' = merror
               /\ mlog' = Append(mlog, "summarizeAsset")
          ELSE /\ mpc' = "thrown"
               /\ merror' = IF outcome = "empty" THEN NoTranscriptError
                            ELSE TranscriptionFailedError
               /\ mlog' = mlog
    /\ UNCHANGED <<menv, mfile, besidesFile>>

\* Lines 189-204: summarizeAsset returns or throws
SummarizeAssetReturns ==
    /\ mpc = "summarizeAsset"
    /\ \E ok \in BOOLEAN :
          IF ok THEN mpc' = "returned" /\ merror' = merror
          ELSE mpc' = "thrown" /\ merror' = TranscriptionFailedError
    /\ UNCHANGED <<menv, mfile, mlog, besidesFile>>

NextMediaFile ==
    \/ SummarizeMediaFileBegins
    \/ FetchLinkContentReturns
    \/ SummarizeAssetReturns

SpecMediaFile == InitMediaFile /\ [][NextMediaFile]_vars


(***************************************************************************)
Range(seq) == {seq[i] : i \in 1..Len(seq)}

PriorityOf(source) == CHOOSE i \in 1..Len(Priority) : Priority[i] = source

\* The sources of seq follow one another in the priority order, none twice.
InPriorityOrder(seq) ==
    \A i, j \in 1..Len(seq) : i < j => PriorityOf(seq[i]) < PriorityOf(seq[j])

\* C6 as stated: the sources are attempted in the order youtubei,
\* captionTracks, apify, yt-dlp, and on every return attemptedProviders is
\* exactly the sequence of the sources attempted, nothing else listed.
C6_AttemptedIsCalls ==
    /\ InPriorityOrder(calls)
    /\ pc = "returned" => attemptedProviders = calls

\* C6, amended: the sources are attempted in the order youtubei, captionTracks,
\* apify, yt-dlp, and on every return attemptedProviders is the sequence of the
\* sources whose fetcher was called, in the order of the calls, followed by the
\* entry `unavailable` exactly when the call returns the source `unavailable`.
C6_AttemptedIsCallsThenUnavailable ==
    /\ InPriorityOrder(calls)
    /\ pc = "returned" =>
          attemptedProviders =
              calls \o (IF result.source = "unavailable"
                        THEN <<"unavailable">> ELSE <<>>)

C6_Witness ==
    /\ pc = "returned"
    /\ calls = <<"youtubei", "captionTracks", "apify", "yt-dlp">>
    /\ result.source = "yt-dlp"

\* C7 as stated: in mode auto, apify is attempted and listed in
\* attemptedProviders only if an Apify token is configured.
C7_ApifyOnlyWithToken ==
    (options.youtubeTranscriptMode = "auto" /\ "apify" \in Range(attemptedProviders))
        => options.apifyApiToken

\* C8: in mode auto, yt-dlp is attempted only when every earlier source has
\* yielded no text and a yt-dlp path and one of the two transcription keys are
\* configured; nothing is thrown in mode auto.
C8_YtDlpInAutoOnlyWhenConfigured ==
    options.youtubeTranscriptMode = "auto" =>
        /\ pc # "thrown"
        /\ "yt-dlp" \in Range(calls) =>
              /\ options.ytDlpPath
              /\ options.openaiApiKey \/ options.falApiKey
              /\ yielded["youtubei"] \in {"null", "not called"}
              /\ yielded["captionTracks"] = "null"
              /\ yielded["apify"] = "null"

C8_Witness ==
    /\ options.youtubeTranscriptMode = "auto"
    /\ pc = "returned"
    /\ "yt-dlp" \in Range(calls)
    /\ ~options.openaiApiKey

\* C9: in mode web only youtubei and then captionTracks are called, in mode
\* apify only apify, whatever the called sources return.
C9_ModeRestrictsSources ==
    /\ options.youtubeTranscriptMode = "web" =>
          calls \in {<<>>, <<"youtubei">>, <<"captionTracks">>,
                     <<"youtubei", "captionTracks">>}
    /\ options.youtubeTranscriptMode = "apify" => calls \in {<<>>, <<"apify">>}

C9_Witness ==
    /\ options.youtubeTranscriptMode = "web"
    /\ pc = "returned"
    /\ calls = <<"youtubei", "captionTracks">>
    /\ result.source = "unavailable"

\* C10: in mode yt-dlp without a yt-dlp path or without both transcription
\* keys, the call throws a configuration error and no source is ever called or
\* listed.
C10_YtDlpModeConfigError ==
    ( /\ options.youtubeTranscriptMode = "yt-dlp"
      /\ ~options.ytDlpPath \/ ~(options.openaiApiKey \/ options.falApiKey)
      /\ pc # "start" )
    => /\ pc = "thrown"
       /\ error \in {MissingYtDlpPath, MissingTranscriptionKey}
       /\ calls = <<>>
       /\ attemptedProviders = <<>>

C10_Witness ==
    /\ pc = "thrown"
    /\ error = MissingTranscriptionKey
    /\ options.ytDlpPath
    /\ calls = <<>>

C12_StopsAtFirstText ==
    /\ \A i \in 1..(Len(calls) - 1) : yielded[calls[i]] \in {"null", "failed"}
    /\ (pc = "returned" /\ result.text # "null") =>
          /\ yielded[result.source] = result.text
          /\ calls # <<>> /\ calls[Len(calls)] = result.source
          /\ attemptedProviders # <<>>
          /\ attemptedProviders[Len(attemptedProviders)] = result.source
          /\ (options.youtubeTranscriptMode = "auto" /\ result.source = "youtubei")
                => attemptedProviders = <<"youtubei">>

C12_Witness ==
    /\ pc = "returned"
    /\ options.youtubeTranscriptMode = "auto"
    /\ yielded["youtubei"] = "text"
    /\ result.source = "youtubei"
    /\ attemptedProviders = <<"youtubei">>

\* C13 as stated: a call for a url with no video id returns text null and
\* source null with an empty attemptedProviders and no source called, and
\* source null is never returned after a source was called.
C13_NoIdReturnsNullSource ==
    /\ (~context.videoId /\ pc # "start") =>
          /\ pc = "returned"
          /\ result.text = "null" /\ result.source = "null"
          /\ attemptedProviders = <<>> /\ calls = <<>>
    /\ (pc = "returned" /\ result.source = "null") => calls = <<>>

\* C13, amended: a call for a url with no video id, unless it is in explicit
\* yt-dlp mode with its configuration missing, returns text null and source
\* null with an empty attemptedProviders and no source called; source null is
\* never returned after a source was called.
C13_NoIdReturnsNullSourceUnlessConfigError ==
    /\ (~context.videoId /\ configError(options) = NoValue /\ pc # "start") =>
          /\ pc = "returned"
          /\ result.text = "null" /\ result.source = "null"
          /\ attemptedProviders = <<>> /\ calls = <<>>
    /\ (pc = "returned" /\ result.source = "null") =>
          /\ calls = <<>> /\ attemptedProviders = <<>> /\ result.text = "null"

C13_Witness ==
    /\ pc = "returned"
    /\ context.html /\ ~context.videoId
    /\ result.source = "null"

(***************************************************************************)
(* Claims about resolveTranscriptForLink.                                  *)
(***************************************************************************)
\* C14: selectProvider returns the first provider of the list youtube,
\* podcast, generic, other than generic, whose canHandle is true, and the
\* generic provider when there is none: every call is routed to exactly one
\* provider.
C14_FirstSpecializedElseGeneric ==
    rpc # "start" =>
        provider = IF request.canHandle["youtube"] THEN "youtube"
                   ELSE IF request.canHandle["podcast"] THEN "podcast"
                   ELSE "generic"

C14_Witness ==
    /\ rpc = "returned"
    /\ request.canHandle["youtube"] /\ request.canHandle["podcast"]
    /\ provider = "youtube"

\* C15 as stated: the returned diagnostics carry the providers tried, the
\* source that succeeded, and every note the selected provider recorded.
C15_DiagnosticsCarryNotes ==
    rpc = "returned" =>
        /\ diagnostics.attemptedProviders = providerResult.attemptedProviders
        /\ diagnostics.provider = providerResult.source
        /\ Range(providerResult.notes) \subseteq Range(diagnostics.notes)

(***************************************************************************)
(* Claims about the transcription engine.                                  *)
(***************************************************************************)
InputBytes == [i \in 1..winput.size |-> i]

RemoteCalls == {i \in 1..Len(wcalls) : wcalls[i].provider \in {"openai", "fal"}}

TruncationNotes == {FirstBytesOnlyNote, TooLargeNote}

Oversized == winput.size > MAX_OPENAI_UPLOAD_BYTES

\* C16: with no ready local engine and no key of either remote provider, the
\* engine returns text null, provider null and the configuration error, and
\* calls no provider.
C16_NothingConfigured ==
    (~wenv.localReady /\ ~wenv.openaiApiKey /\ ~wenv.falApiKey) =>
        /\ wcalls = <<>>
        /\ wstatus # "thrown"
        /\ wstatus = "returned" =>
              wret[1] = [text |-> NullText, provider |-> "null",
                         error |-> NoProvidersConfigured, notes |-> <<>>]

C16_Witness ==
    /\ ~wenv.localReady /\ ~wenv.openaiApiKey /\ ~wenv.falApiKey
    /\ winput.entry = "media"
    /\ wstatus = "returned"
    /\ wret[1].error = NoProvidersConfigured

\* C17 as stated: whenever the input exceeds the upload cap and ffmpeg is not
\* available, the bytes given to a remote provider are the first cap-many
\* bytes of the input, and the notes of the result returned after bytes were
\* given to a remote provider hold a note about the truncation.
C17_OversizedIsTruncated ==
    (Oversized /\ ~wenv.ffmpeg) =>
        /\ \A i \in RemoteCalls :
              wcalls[i].bytes = SubSeq(InputBytes, 1, MAX_OPENAI_UPLOAD_BYTES)
        /\ (wstatus = "returned" /\ RemoteCalls # {}) =>
              Range(wret[1].notes) \cap TruncationNotes # {}

\* C17, amended: whenever the input exceeds the upload cap, ffmpeg is not
\* available and an OpenAI key is configured, the bytes given to a remote
\* provider are the first cap-many bytes of the input, and the notes of the
\* result returned after bytes were given to a remote provider hold a note
\* about the truncation.
C17_OversizedIsTruncatedForOpenAi ==
    (Oversized /\ ~wenv.ffmpeg /\ wenv.openaiApiKey) =>
        /\ \A i \in RemoteCalls :
              wcalls[i].bytes = SubSeq(InputBytes, 1, MAX_OPENAI_UPLOAD_BYTES)
        /\ (wstatus = "returned" /\ RemoteCalls # {}) =>
              Range(wret[1].notes) \cap TruncationNotes # {}

C17_Witness ==
    /\ Oversized /\ ~wenv.ffmpeg /\ wenv.openaiApiKey
    /\ wstatus = "returned"
    /\ \E i \in RemoteCalls :
          /\ wcalls[i].provider = "fal"
          /\ Len(wcalls[i].bytes) = MAX_OPENAI_UPLOAD_BYTES
    /\ Range(wret[1].notes) \cap TruncationNotes # {}

\* C18: FAL is called only with bytes whose media type is audio/*, and only by
\* a call that has no OpenAI key or whose OpenAI attempt has failed; a call
\* whose OpenAI attempt returned text calls nothing more.
C18_FalOnlyAfterOpenAiForAudio ==
    \A i \in 1..Len(wcalls) :
        wcalls[i].provider = "fal" =>
            /\ toLowerCase(wcalls[i].mediaType.type) = "audio"
            /\ ~wenv.openaiApiKey \/ wcalls[i].openaiError # "null"
            /\ wenv.openaiApiKey =>
                  /\ i > 1
                  /\ wcalls[i - 1].provider = "openai"
                  /\ wcalls[i - 1].depth = wcalls[i].depth
                  /\ wcalls[i - 1].name = wcalls[i].name

C18_Witness ==
    /\ wstatus = "returned"
    /\ winput.mediaType.type = "video"
    /\ \E i \in 1..Len(wcalls) :
          /\ wcalls[i].provider = "fal"
          /\ wcalls[i].depth = 1
          /\ wcalls[i].openaiError = OpenAiEmptyAfterTranscode

\* C19 as stated: a result without text carries the configuration message
\* only when no provider exists at all, and when a provider was attempted it
\* carries the failure of the last provider attempted.
C19_MostSpecificError ==
    (wstatus = "returned" /\ wret[1].text = NullText) =>
        /\ wret[1].error = NoProvidersConfigured =>
              (~wenv.localReady /\ ~wenv.openaiApiKey /\ ~wenv.falApiKey)
        /\ wcalls # <<>> =>
              LET last == wcalls[Len(wcalls)].provider
              IN wret[1].error \in
                    IF last = "openai"
                    THEN {OpenAiEmpty, OpenAiEmptyAfterTranscode, OpenAiUndecodable,
                          OpenAiFailed}
                    ELSE IF last = "fal" THEN {FalEmpty, FalFailed}
                    ELSE {LocalFailedNote}

\* C20: no result returned by either function carries both a text and an
\* error.
C20_TextOrError ==
    wret # <<>> => ~(wret[1].text # NullText /\ wret[1].error # "null")

C20_Witness ==
    /\ wstatus = "returned"
    /\ wret[1].text = <<1, 2>>
    /\ wret[1].error = "null"

\* C21 as stated: every note pushed to a notes list at any step of the call,
\* in the outer call or in a nested one, is in the notes of the returned
\* result.
C21_NotesAccumulate ==
    wstatus = "returned" => wrecorded \subseteq Range(wret[1].notes)

ProviderRank(prov) == IF prov = "whisper.cpp" THEN 1 ELSE IF prov = "openai" THEN 2 ELSE 3

SameUpload(i, j) ==
    wcalls[i].depth = wcalls[j].depth /\ wcalls[i].name = wcalls[j].name

\* C24: OpenAI is called at most twice for one upload; a second call is made
\* only with ffmpeg available, right after a first call that failed as
\* undecodable, and with the transcoded MP3 bytes; after such a failure with
\* ffmpeg available the call goes on to FAL or returns only once the
\* transcode or the retry has been tried.
C24_RetryOnceAfterUndecodable ==
    /\ \A i \in 1..Len(wcalls) :
          wcalls[i].provider = "openai" =>
              /\ Cardinality({j \in 1..Len(wcalls) :
                                 wcalls[j].provider = "openai" /\ SameUpload(i, j)}) <= 2
              /\ wcalls[i].openaiError # "null" =>
                    /\ wcalls[i].openaiError = OpenAiUndecodable
                    /\ wenv.ffmpeg
                    /\ wcalls[i].bytes = Mp3Bytes
                    /\ wcalls[i].mediaType = AudioMpeg
                    /\ i > 1
                    /\ wcalls[i - 1].provider = "openai"
                    /\ SameUpload(i - 1, i)
                    /\ wcalls[i - 1].openaiError = "null"
    /\ \A k \in 1..Len(wstack) :
          /\ wstack[k].pc \in {"transcode", "retry"} =>
                wstack[k].openaiError = OpenAiUndecodable
          /\ ( /\ wstack[k].pc = "fal"
               /\ wstack[k].openaiError = OpenAiUndecodable
               /\ wenv.ffmpeg )
             => TranscodeFailedNote \in Range(wstack[k].notes)

C24_Witness ==
    /\ wstatus = "returned"
    /\ wret[1].provider = "openai"
    /\ wret[1].text # NullText
    /\ Len(wcalls) = 2
    /\ wcalls[1].provider = "openai" /\ wcalls[1].bytes = InputBytes
    /\ wcalls[2].provider = "openai" /\ wcalls[2].bytes = Mp3Bytes

FailedSegment(i) == wsegs[i].error # "null" /\ wsegs[i].text = NullText

\* C26: once a segment has failed it is the last segment transcribed (no
\* provider is called for a later one), and the result handed back by the
\* chunked call, and by every call around it, has no text and carries that
\* segment's error.
C26_SegmentFailureAborts ==
    \A i \in 1..Len(wsegs) :
        FailedSegment(i) =>
            /\ i = Len(wsegs)
            /\ \A k \in 1..Len(wcalls) : wcalls[k].name <= wsegs[i].name
            /\ \A k \in 1..Len(wstack) : wstack[k].pc # "segment"
            /\ wstatus # "thrown"
            /\ wret # <<>>
            /\ wret[1].text = NullText
            /\ wret[1].error = wsegs[i].error

C26_Witness ==
    /\ wstatus = "returned"
    /\ Len(wsegs) = 2
    /\ wsegs[1].text # NullText
    /\ FailedSegment(2)

\* C27 as stated: when the call has returned or thrown, no temporary file or
\* directory created during the call exists any more.
C27_TempFilesRemoved ==
    wstatus \in {"returned", "thrown"} => wtemp = {}

\* C29: at every moment of a transcription call at most one provider request
\* or subprocess has been started and has not ended; while the call awaits a
\* step, that step is the one.
C29_OneStepInFlight ==
    /\ Cardinality(winflight) <= 1
    /\ awaited(wstack) \subseteq winflight

C29_Witness ==
    /\ wstatus = "running"
    /\ \E r \in winflight : r.step = "fal"
    /\ \E k \in 1..Len(wcalls) : wcalls[k].provider = "openai"
    /\ \E k \in 1..Len(wcalls) : wcalls[k].provider = "whisper.cpp"

\* C28 as stated: no step hangs for ever, the call proceeds and eventually
\* returns or throws.
C28_CallEventuallyEnds == <>(wstatus # "running")

\* C30 as stated: what the progress callback does never reaches the caller:
\* no call ends by throwing the callback's error.
C30_CallbackNeverSurfaces ==
    wstatus = "thrown" => werror # CallbackError

\* C25 as stated: for any number of segments the files are transcribed in
\* the temporal order of the audio, segment 0 first, and the returned text
\* is the segments' texts in that order with a blank line between them.
C25_SegmentsInTemporalOrder ==
    /\ \A k \in 1..Len(sgCalls) : segmentOf(sgCalls[k]) = k - 1
    /\ sgText # NoValue =>
          sgText = joinParts([i \in 1..sgCount |-> <<i - 1>>])

NoneConfigured ==
    /\ menv.OPENAI_API_KEY # "set"
    /\ menv.FAL_KEY # "set"
    /\ menv.SUMMARIZE_WHISPER_CPP_BINARY # "set"

C31_ForwardsYtDlpConfiguration ==
    ( /\ rpc = "thrown"
      /\ provider = "youtube"
      /\ request.youtubeTranscriptMode = "yt-dlp"
      /\ request.ytDlpPath )
    => /\ error = MissingTranscriptionKey
       /\ ~(request.openaiApiKey \/ request.falApiKey)

(***************************************************************************)
(* Claims about the rules of the merge.                                    *)
(***************************************************************************)

\* The longest common prefix of two texts, whatever their length.
longestCommonPrefix(a, b) == commonPrefixLength(a, b, Max({Len(a), Len(b)}))

\* A common prefix of n characters covers at least 90% of previous's length
\* or is within 64 characters of its full length, whichever is larger.
CoversPrevious(n, prev) ==
    /\ n > 0
    /\ n >= Len(prev) - MinPrefixSlack
    /\ 10 * n >= 9 * Len(prev)

\* C32 as stated: for previous of any length, a chunk at least as long as
\* previous that shares with it a common prefix covering at least 90% of
\* previous's length (or lying within 64 characters of its full length,
\* whichever is larger) is returned as next, and appended is the rest of the
\* chunk past the common prefix.
C32_MinorRevisionReplaces ==
    ( /\ mergeCalls = 1
      /\ Len(chunk) >= Len(previous)
      /\ CoversPrevious(longestCommonPrefix(previous, chunk), previous) )
    => /\ merged.next = chunk
       /\ merged.appended = slice(chunk, longestCommonPrefix(previous, chunk))

\* The lengths of the overlaps of prev and chunk: the endings of prev that are
\* beginnings of chunk.
Overlaps(prev, nextChunk) ==
    {len \in 1..Min({Len(prev), Len(nextChunk)}) :
        sliceLast(prev, len) = SubSeq(nextChunk, 1, len)}

\* Neither text is a prefix of the other and the chunk is not a minor revision
\* of previous.
NoPrefixRule(prev, nextChunk) ==
    /\ ~startsWith(nextChunk, prev)
    /\ ~startsWith(prev, nextChunk)
    /\ ~nearPrefix(prev, nextChunk)

\* C33 as stated: when no prefix rule applies, next is previous followed by
\* the chunk without the longest overlap of at most 2048 characters, and
\* appended is that rest of the chunk; the whole chunk is appended only when
\* previous and the chunk have no overlap of any length.
C33_LongestOverlapStitched ==
    (mergeCalls = 1 /\ NoPrefixRule(previous, chunk)) =>
        LET all == Overlaps(previous, chunk)
            scanned == {len \in all : len <= MaxOverlapScan}
        IN /\ scanned # {} =>
                /\ merged.next = previous \o slice(chunk, Max(scanned))
                /\ merged.appended = slice(chunk, Max(scanned))
           /\ all = {} =>
                /\ merged.next = previous \o chunk
                /\ merged.appended = chunk
           /\ all # {} => merged.appended # chunk

\* C34 as stated: after any sequence of merges that starts from the empty text
\* and feeds each next into the following call, the concatenation of all the
\* appended values returned so far equals the current next.
C34_RenderedIsNext ==
    rendered = streamed

\* C34, amended: the concatenation of the appended values equals the current
\* next as long as no merge of the sequence has taken its chunk for a resend
\* with a minor revision.
C34_RenderedIsNextUnlessRevised ==
    ~revised => rendered = streamed

C34_Witness ==
    /\ ~revised /\ chunksSeen = MaxChunks
    /\ rendered = streamed
    /\ Len(streamed) > MaxFeed
    /\ Len(streamed) < MaxChunks * MaxFeed

\* C35 as stated: summarizeMediaFile rejects with the setup error exactly
\* when the transcription engine would have no provider to attempt (no ready
\* local whisper.cpp, no OpenAI key and no FAL key), and accepts whenever the
\* engine has at least one.
C35_GateAgreesWithEngine ==
    mpc \notin {"idle", "start"} =>
        (merror = SetupError <=> ~engineHasProvider(menv))

(***************************************************************************)
(* SpecGenerate: one call of generateTextWithModelId                       *)
(* (src/llm/generate-text.ts), one action per stretch of code between two  *)
(* awaits.  The five provider branches of the loop body differ in the key  *)
(* they demand and are modelled as one.                                    *)
(***************************************************************************)
\* Largest `retries` argument.
MaxRetries == 2

TimedOutMessage == "LLM request timed out after"
EmptySummaryMessage == "LLM returned an empty summary"
MissingKeyMessage == "Missing API key"
FailedAfterMessage == "LLM request failed after"
ModelAccessMessage == "Anthropic API rejected model"
OnRetryThrew == "onRetry threw"

\* What completeSimple can reject with: the abort of the request's signal, an
\* error of the provider that reports a timeout of its own, one that reports
\* that the model is not accessible, and any other error.
AbortError == "AbortError"
GatewayTimedOut == "upstream request timed out"
ModelNotFound == "model: not found"
ProviderError == "provider error"
Rejections == {AbortError, GatewayTimedOut, ModelNotFound, ProviderError}

\* Line 358
maxRetries(retries) == Max({0, retries})

\* Lines 510-513
normalizedError(err) == IF err = AbortError THEN TimedOutMessage ELSE err

\* Lines 65-88: the hint for an error that rejects the model, "null" otherwise
normalizeAnthropicModelAccessError(err) ==
    IF err = ModelNotFound THEN ModelAccessMessage ELSE "null"

\* A test that takes every error for a timeout.
isRetryableAlways(message) == TRUE

\* Lines 534-545: /timed out/i or /empty summary/i matches the message
isRetryableTimeoutError(message) ==
    message \in {TimedOutMessage, GatewayTimedOut, EmptySummaryMessage}

InitGenerate ==
    /\ gin \in [retries : (0 - 1)..MaxRetries, provider : {"anthropic", "openai"},
                apiKey : BOOLEAN, onRetry : BOOLEAN]
    /\ gattempt = 0 /\ gpc = "start" /\ glog = <<>> /\ gcalls = 0 /\ gerror = NoValue
    /\ MergeIdle /\ StreamIdle /\ YouTubeIdle /\ ResolveIdle /\ WhisperIdle
    /\ SegmentsIdle /\ FileIdle
    /\ TextIdle /\ LogIdle /\ ViewerIdle

\* Lines 509-528: the catch block for the error of the attempt in progress
Caught(err) ==
    LET normalized == normalizedError(err)
        access == IF gin.provider = "anthropic"
                  THEN normalizeAnthropicModelAccessError(normalized) ELSE "null"
    IN /\ glog' = Append(glog, normalized)
       /\ IF access # "null"
          THEN gpc' = "thrown" /\ gerror' = access
          ELSE IF isRetryableTimeoutError(normalized)
                  /\ gattempt < maxRetries(gin.retries)
               THEN \E throws \in (IF gin.onRetry THEN BOOLEAN ELSE {FALSE}) :
                       IF throws THEN gpc' = "thrown" /\ gerror' = OnRetryThrew
                       ELSE gpc' = "sleep" /\ gerror' = gerror
               ELSE gpc' = "thrown" /\ gerror' = normalized

\* Lines 361-364 and the start of a provider branch: the loop test, the key
\* check and the call of completeSimple.  The local `attempt` is attempt.
LoopBody(attempt) ==
    IF attempt <= maxRetries(gin.retries)
    THEN IF gin.apiKey
         THEN /\ gpc' = "completeSimple" /\ gcalls' = gcalls + 1
              /\ glog' = glog /\ gerror' = gerror
         ELSE gcalls' = gcalls /\ Caught(MissingKeyMessage)
    ELSE /\ gpc' = "thrown" /\ gerror' = FailedAfterMessage
         /\ gcalls' = gcalls /\ glog' = glog

GenerateBegins ==
    /\ gpc = "start"
    /\ LoopBody(gattempt)
    /\ UNCHANGED <<gin, gattempt, besidesGenerate>>

\* Lines 374-389 (and the same lines of the other branches): completeSimple
\* settles; a result without text is the empty-summary error
CompleteSimpleSettles ==
    /\ gpc = "completeSimple"
    /\ \E outcome \in {"text", "no text"} \cup Rejections :
          IF outcome = "text"
          THEN gpc' = "returned" /\ glog' = Append(glog, "text") /\ gerror' = gerror
          ELSE Caught(IF outcome = "no text" THEN EmptySummaryMessage ELSE outcome)
    /\ UNCHANGED <<gin, gattempt, gcalls, besidesGenerate>>

\* Lines 521-523: the sleep ends, attempt += 1, continue
SleepEnds ==
    /\ gpc = "sleep"
    /\ gattempt' = gattempt + 1
    /\ LoopBody(gattempt + 1)
    /\ UNCHANGED <<gin, besidesGenerate>>

NextGenerate == GenerateBegins \/ CompleteSimpleSettles \/ SleepEnds

SpecGenerate == InitGenerate /\ [][NextGenerate]_vars

\* The errors the retry is for: a timeout and an empty summary.
TimeoutOrEmptySummary == {TimedOutMessage, GatewayTimedOut, EmptySummaryMessage}

\* The number of attempts begun so far.
attemptsBegun == Len(glog) + (IF gpc = "completeSimple" THEN 1 ELSE 0)

\* C36: generateTextWithModelId makes at most max(0, retries) + 1 attempts; an
\* attempt after the first is begun only after the one before it ended in a
\* timeout or empty-summary error and attempts remained; any other error, and
\* the error of the last allowed attempt, is thrown without a further attempt.
C36_BoundedRetries ==
    /\ gcalls <= Max({0, gin.retries}) + 1
    /\ attemptsBegun <= Max({0, gin.retries}) + 1
    /\ \A k \in 1..Len(glog) :
          (k < attemptsBegun \/ gpc = "sleep") =>
              /\ glog[k] \in TimeoutOrEmptySummary
              /\ k <= Max({0, gin.retries})
    /\ \A k \in 1..Len(glog) :
          (glog[k] # "text"
             /\ (glog[k] \notin TimeoutOrEmptySummary \/ k = Max({0, gin.retries}) + 1)) =>
              /\ k = Len(glog)
              /\ gpc = "thrown"
              /\ gerror \in {glog[k], ModelAccessMessage}

C36_Witness ==
    /\ gin.retries = MaxRetries
    /\ gcalls = MaxRetries + 1
    /\ gpc = "thrown"
    /\ gerror = EmptySummaryMessage
    /\ glog[1] = TimedOutMessage

(***************************************************************************)
(* SpecTextStream: the text stream returned by one call of                 *)
(* streamTextWithModelId (src/llm/generate-text.ts, lines 592-659), read   *)
(* by its consumer chunk by chunk.  The state after construction is the    *)
(* state in which the function has returned.  The provider's stream        *)
(* delivers text deltas, an error event or its end in any order and at any *)
(* time, also after the request's signal was aborted.                      *)
(***************************************************************************)
\* The largest number of chunks a stream yields.
MaxYield == 8

InitTextStream ==
    /\ tclock = "before" /\ tpc = "idle" /\ tinner = "unstarted" /\ treturn = FALSE
    /\ timeoutId = FALSE /\ lastError = "null" /\ taborts = 0 /\ tchunks = 0
    /\ tlate = FALSE
    /\ MergeIdle /\ StreamIdle /\ YouTubeIdle /\ ResolveIdle /\ WhisperIdle
    /\ SegmentsIdle /\ FileIdle
    /\ GenerateIdle /\ LogIdle /\ ViewerIdle

\* Lines 597-601
markTimedOut ==
    IF lastError = "timeout" THEN UNCHANGED <<lastError, taborts>>
    ELSE lastError' = "timeout" /\ taborts' = taborts + 1

\* Lines 647-657: the finally block of the wrapped stream: stopTimeout, and
\* iterator.return(), which a running step of the inner stream keeps waiting
\* and which ends an inner stream that is not running.
Finally ==
    /\ timeoutId' = FALSE
    /\ IF tinner' = "awaiting" THEN treturn' = TRUE
       ELSE treturn' = FALSE

\* Lines 639-643 and 614-620: the consumer asks for the next chunk.  On the
\* first read the timer is started and the inner iterator made; iterator.next()
\* is called, and nextWithDeadline fails at once when no time remains.
ReadBegins ==
    /\ tpc \in {"idle", "yielded"}
    /\ tinner' = "awaiting"
    /\ IF tclock = "elapsed"
       THEN markTimedOut /\ tpc' = "timedOut" /\ Finally
       ELSE /\ tpc' = "reading" /\ timeoutId' = TRUE
            /\ UNCHANGED <<treturn, lastError, taborts>>
    /\ UNCHANGED <<tclock, tchunks, tlate, besidesText>>

\* Lines 678-687 (the same in every provider branch) and 643-657: the
\* provider's stream delivers an event to the running step of the inner
\* stream, or throws.
StreamEvent ==
    /\ tinner = "awaiting"
    /\ \E event \in {"text_delta", "error", "end", "throws"} :
          /\ lastError' = IF event = "error" THEN "stream" ELSE lastError
          /\ IF treturn
             THEN /\ tinner' = "ended" /\ treturn' = FALSE
                  /\ UNCHANGED <<tpc, timeoutId, tchunks, tlate>>
             ELSE IF event = "text_delta"
                  THEN /\ tchunks < MaxYield
                       /\ tinner' = "suspended" /\ tpc' = "yielded"
                       /\ tchunks' = tchunks + 1
                       /\ tlate' = (tlate \/ tclock = "elapsed")
                       /\ UNCHANGED <<treturn, timeoutId>>
                  ELSE /\ tinner' = "ended"
                       /\ tpc' = IF event = "throws" THEN "threw" ELSE "done"
                       /\ Finally
                       /\ UNCHANGED <<tchunks, tlate>>
    /\ UNCHANGED <<tclock, taborts, besidesText>>

\* Lines 621-634: timeoutMs has passed since the call; the timer of a read in
\* progress fires and the read fails.
DeadlinePasses ==
    /\ tclock = "before"
    /\ tclock' = "elapsed"
    /\ IF tpc = "reading"
       THEN markTimedOut /\ tpc' = "timedOut" /\ tinner' = tinner /\ Finally
       ELSE UNCHANGED <<tpc, tinner, treturn, timeoutId, lastError, taborts>>
    /\ UNCHANGED <<tchunks, tlate, besidesText>>

\* Lines 603-606: the timer of startTimeout fires, timeoutMs after the first
\* read, while the consumer holds a chunk.
TimeoutFires ==
    /\ tclock = "elapsed" /\ timeoutId
    /\ markTimedOut
    /\ timeoutId' = FALSE
    /\ UNCHANGED <<tclock, tpc, tinner, treturn, tchunks, tlate, besidesText>>

\* Lines 647-657: the consumer leaves its loop over the stream.
ConsumerReturns ==
    /\ tpc = "yielded"
    /\ tpc' = "done" /\ tinner' = "ended"
    /\ Finally
    /\ UNCHANGED <<tclock, lastError, taborts, tchunks, tlate, besidesText>>

NextTextStream ==
    ReadBegins \/ StreamEvent \/ DeadlinePasses \/ TimeoutFires \/ ConsumerReturns

SpecTextStream == InitTextStream /\ [][NextTextStream]_vars

\* C37 as stated: once timeoutMs has elapsed since the call, no further chunk
\* is yielded and no read stays open; a read that failed with the timeout
\* error has aborted the request exactly once, and lastError() returns the
\* timeout error from then on.
C37_TimeoutIsFinal ==
    /\ ~tlate
    /\ tclock = "elapsed" => tpc # "reading"
    /\ tpc = "timedOut" => (taborts = 1 /\ lastError = "timeout")

(***************************************************************************)
(* SpecExtensionLog: the buffered log of the browser extension             *)
(* (apps/chrome-extension/src/lib/extension-logs.ts).  A line is the       *)
(* number of its arrival.  The storage answers each get and each set in    *)
(* its own time, and either call may fail.                                 *)
(***************************************************************************)
MAX_LOG_LINES == 4000
FLUSH_BATCH == 50

\* The number of lines logged one at a time, of runs of FLUSH_BATCH - 1 calls
\* made in a row by one task, and of storage writes that fail.
MaxLines == 3
MaxBursts == 1
MaxFailures == 1

\* A flush that never takes another for running.
flushGuardNever(inFlight) == FALSE

\* Line 106: if (flushInFlight) return
flushGuard(inFlight) == inFlight

\* Lines 97-103, without the timer's callback
queueFlush ==
    IF flushTimer # 0 THEN UNCHANGED <<flushTimer, timers>>
    ELSE flushTimer' = 1 /\ timers' = timers + 1

\* Lines 105-114: flushPending up to its first await, with pending the value
\* of pendingLines at the call.  The storage is there whenever a line was
\* accepted.
flushPending(pending) ==
    IF flushGuard(flushInFlight) \/ pending = <<>>
    THEN UNCHANGED <<flushInFlight, flushes>>
    ELSE /\ flushInFlight' = TRUE
         /\ flushes' = Append(flushes, [phase |-> "get", combined |-> <<>>])

\* Lines 119-121: the last MAX_LOG_LINES of the combined lines
capped(combined) ==
    IF Len(combined) > MAX_LOG_LINES
    THEN SubSeq(combined, Len(combined) - MAX_LOG_LINES + 1, Len(combined))
    ELSE combined

Without(seq, i) == SubSeq(seq, 1, i - 1) \o SubSeq(seq, i + 1, Len(seq))

InitExtensionLog ==
    /\ flushTimer = 0 /\ flushInFlight = FALSE /\ pendingLines = <<>> /\ stored = <<>>
    /\ flushes = <<>> /\ timers = 0 /\ accepted = 0 /\ failures = 0
    /\ MergeIdle /\ StreamIdle /\ YouTubeIdle /\ ResolveIdle /\ WhisperIdle
    /\ SegmentsIdle /\ FileIdle
    /\ GenerateIdle /\ TextIdle /\ ViewerIdle

\* Lines 131-141, called k times in a row: every call that leaves fewer than
\* FLUSH_BATCH lines pending calls queueFlush, every other calls flushPending.
logExtensionEvents(k) ==
    /\ accepted' = accepted + k
    /\ pendingLines' = pendingLines \o [i \in 1..k |-> accepted + i]
    /\ IF Len(pendingLines) + 1 < FLUSH_BATCH THEN queueFlush
       ELSE UNCHANGED <<flushTimer, timers>>
    /\ IF Len(pendingLines') >= FLUSH_BATCH THEN flushPending(pendingLines')
       ELSE UNCHANGED <<flushInFlight, flushes>>
    /\ UNCHANGED <<stored, failures, besidesLog>>

\* The lines logged one at a time and the runs of calls so far.
singleLines == accepted % (FLUSH_BATCH - 1)
bursts == accepted \div (FLUSH_BATCH - 1)

logExtensionEvent ==
    /\ singleLines < MaxLines
    /\ logExtensionEvents(1)

LogBurst ==
    /\ bursts < MaxBursts
    /\ logExtensionEvents(FLUSH_BATCH - 1)

\* Lines 99-102: the timer's callback
FlushTimerFires ==
    /\ timers > 0
    /\ timers' = timers - 1
    /\ flushTimer' = 0
    /\ flushPending(pendingLines)
    /\ UNCHANGED <<pendingLines, stored, accepted, failures, besidesLog>>

\* Lines 123-128: the finally block of the flush at position i
FlushEnds(i) ==
    /\ flushInFlight' = FALSE
    /\ flushes' = Without(flushes, i)
    /\ IF Len(pendingLines') > 0 THEN queueFlush
       ELSE UNCHANGED <<flushTimer, timers>>

\* Lines 115-122: store.get settles; on success the stored and the pending
\* lines are combined, pendingLines is emptied and store.set is called
StoreGetSettles ==
    \E i \in 1..Len(flushes), ok \in BOOLEAN :
        /\ flushes[i].phase = "get"
        /\ IF ok
           THEN /\ flushes' = [flushes EXCEPT
                                  ![i] = [phase |-> "set",
                                          combined |-> capped(stored \o pendingLines)]]
                /\ pendingLines' = <<>>
                /\ UNCHANGED <<flushInFlight, flushTimer, timers>>
           ELSE /\ pendingLines' = pendingLines
                /\ FlushEnds(i)
        /\ UNCHANGED <<stored, accepted, failures, besidesLog>>

\* Lines 122-128: store.set settles
StoreSetSettles ==
    \E i \in 1..Len(flushes), ok \in BOOLEAN :
        /\ flushes[i].phase = "set"
        /\ IF ok
           THEN stored' = flushes[i].combined /\ failures' = failures
           ELSE /\ failures < MaxFailures
                /\ stored' = stored /\ failures' = failures + 1
        /\ pendingLines' = pendingLines
        /\ FlushEnds(i)
        /\ UNCHANGED <<accepted, besidesLog>>

NextExtensionLog ==
    logExtensionEvent \/ LogBurst \/ FlushTimerFires \/ StoreGetSettles \/ StoreSetSettles

SpecExtensionLog == InitExtensionLog /\ [][NextExtensionLog]_vars

\* The lines of the writes that are on their way to the storage.
BeingWritten ==
    UNION {Range(flushes[i].combined) : i \in 1..Len(flushes)}

\* C38 as stated, as far as it can fail in finite time: every accepted line
\* is pending, on its way to the storage or stored, the stored lines are in
\* the order of their arrival, each once; no accepted line is lost.
C38_NoLineLost ==
    /\ \A line \in 1..accepted :
          line \in Range(pendingLines) \cup BeingWritten \cup Range(stored)
    /\ \A i, j \in 1..Len(stored) : i < j => stored[i] < stored[j]

\* C39: at most one flush of the extension log is in flight at any time and
\* at most one flush timer is pending.
C39_OneFlushOneTimer ==
    /\ Len(flushes) <= 1
    /\ timers <= 1
    /\ flushInFlight <=> Len(flushes) = 1
    /\ (flushTimer # 0) <=> timers = 1

\* A flush was requested while another was running, and returned at once.
C39_Witness ==
    /\ Len(flushes) = 1 /\ flushes[1].phase = "set"
    /\ pendingLines # <<>>
    /\ flushTimer = 0 /\ timers = 0

(***************************************************************************)
(* SpecViewer: the logs viewer or the processes viewer of the options page *)
(* (apps/chrome-extension/src/lib/daemon-payload.ts; line numbers are      *)
(* those of createLogsViewer, with those of createProcessesViewer in       *)
(* parentheses).  A refresh runs without a pause up to its first await;    *)
(* the state of one viewer is the record                                   *)
(* [inFlight, needs, requests, absorbed] of its two flags, the refresh     *)
(* runs that are at an await and the refreshes the running one absorbed.   *)
(***************************************************************************)
\* The number of refreshes asked for by the user, the timer and the page.
MaxRefreshes == 4

\* A refresh that never takes another for running.
refreshGuardNever(inFlight) == FALSE

\* Line 376 (738): if (refreshInFlight)
refreshGuard(inFlight) == inFlight

\* Lines 381-384 (743-744): the viewer can ask the daemon, or reads the
\* extension's own log
tokenOk(in) == in.token \/ (in.viewer = "logs" /\ in.source = "extension")

\* Lines 375-396 (737-757): refresh up to its first await
refresh(st, active, in) ==
    IF refreshGuard(st.inFlight)
    THEN [st EXCEPT !.needs = TRUE, !.absorbed = @ + 1]
    ELSE IF ~active THEN st
    ELSE IF ~tokenOk(in) THEN [st EXCEPT !.needs = TRUE]
    ELSE [inFlight |-> TRUE, needs |-> FALSE,
          requests |-> Append(st.requests, "fetch"), absorbed |-> 0]

viewerState ==
    [inFlight |-> refreshInFlight, needs |-> needsRefresh,
     requests |-> requests, absorbed |-> absorbed]

Becomes(st) ==
    /\ refreshInFlight' = st.inFlight
    /\ needsRefresh' = st.needs
    /\ requests' = st.requests
    /\ absorbed' = st.absorbed

InitViewer ==
    /\ vin \in [viewer : {"logs", "processes"}, source : {"daemon", "extension"},
                token : BOOLEAN]
    /\ vin.viewer = "processes" => vin.source = "daemon"
    /\ refreshInFlight = FALSE /\ needsRefresh = FALSE /\ vactive = FALSE
    /\ requests = <<>> /\ absorbed = 0 /\ finished = NothingFinished /\ vcount = 0
    /\ MergeIdle /\ StreamIdle /\ YouTubeIdle /\ ResolveIdle /\ WhisperIdle
    /\ SegmentsIdle /\ FileIdle
    /\ GenerateIdle /\ TextIdle /\ LogIdle

\* Lines 486-488 (832-834) and 463-466 (809-812): the click on the refresh
\* button, and the interval of the automatic refresh, which does nothing
\* while the tab is not the active one
RefreshRequested ==
    \E by \in {"click", "interval"} :
        /\ vcount < MaxRefreshes
        /\ by = "interval" => vactive
        /\ vcount' = vcount + 1
        /\ Becomes(refresh(viewerState, vactive, vin))
        /\ UNCHANGED <<vin, vactive, finished, besidesViewer>>

\* Lines 469-472 (815-818): the page has made the viewer's tab the active one
handleTabActivated ==
    /\ vcount < MaxRefreshes
    /\ ~vactive
    /\ vactive' = TRUE
    /\ vcount' = vcount + 1
    /\ Becomes(refresh(viewerState, TRUE, vin))
    /\ UNCHANGED <<vin, finished, besidesViewer>>

\* Lines 474-476 (820-822): the page has left the viewer's tab
handleTabDeactivated ==
    /\ vactive
    /\ vactive' = FALSE
    /\ UNCHANGED <<refreshInFlight, needsRefresh, vin, requests, absorbed, finished,
                   vcount, besidesViewer>>

\* Lines 478-484 (824-830): the token was stored or removed
handleTokenChanged ==
    /\ vcount < MaxRefreshes
    /\ vcount' = vcount + 1
    /\ vin' = [vin EXCEPT !.token = ~@]
    /\ IF vactive THEN Becomes(refresh(viewerState, vactive, vin'))
       ELSE /\ needsRefresh' = TRUE
            /\ UNCHANGED <<refreshInFlight, requests, absorbed>>
    /\ UNCHANGED <<vactive, finished, besidesViewer>>

\* Line (786): the processes viewer goes on to await refreshLogs
RefreshLogsBegins ==
    \E i \in 1..Len(requests) :
        /\ vin.viewer = "processes" /\ vin.token
        /\ requests[i] = "fetch"
        /\ requests' = [requests EXCEPT ![i] = "refreshLogs"]
        /\ UNCHANGED <<refreshInFlight, needsRefresh, vin, vactive, absorbed, finished,
                       vcount, besidesViewer>>

\* Lines 397-454 (759-800): the awaited call settles, the result or the error
\* is shown, and the finally block ends the request and, when a refresh is
\* needed and the tab is active, calls refresh
RequestSettles ==
    \E i \in 1..Len(requests) :
        LET ended == [inFlight |-> FALSE, needs |-> needsRefresh,
                      requests |-> Without(requests, i), absorbed |-> absorbed]
            follows == needsRefresh /\ vactive
        IN /\ Becomes(IF follows
                      THEN refresh([ended EXCEPT !.needs = FALSE], vactive, vin)
                      ELSE ended)
           /\ finished' = [absorbed |-> absorbed, active |-> vactive,
                           followUps |-> IF follows THEN 1 ELSE 0,
                           tokenOk |-> tokenOk(vin),
                           started |-> Len(requests') > Len(requests) - 1]
           /\ UNCHANGED <<vin, vactive, vcount, besidesViewer>>

NextViewer ==
    \/ RefreshRequested
    \/ handleTabActivated \/ handleTabDeactivated \/ handleTokenChanged
    \/ RefreshLogsBegins \/ RequestSettles

SpecViewer == InitViewer /\ [][NextViewer]_vars

\* C40: at most one refresh request of a viewer is in flight at a time, and
\* the refreshes requested while one was in flight are followed, when it
\* finishes, by exactly one refresh if the tab is active, which is then the
\* request in flight unless the viewer lacks its token; a request that
\* absorbed no refresh is followed by none.
C40_RefreshesCoalesced ==
    /\ Len(requests) <= 1
    /\ refreshInFlight <=> Len(requests) = 1
    /\ finished.followUps =
          IF finished.absorbed > 0 /\ finished.active THEN 1 ELSE 0
    /\ finished.started <=> (finished.followUps = 1 /\ finished.tokenOk)

C40_Witness ==
    /\ finished.absorbed >= 2 /\ finished.active /\ finished.followUps = 1
    /\ finished.started
    /\ Len(requests) = 1 /\ absorbed = 0 /\ ~needsRefresh

====
